---- MODULE Spec2Model ----
(***************************************************************************)
(* The stacked ensemble prediction engine of FullStackNexus: the lifecycle *)
(* of one ensemble object (untrained -> trained -> retrained), the         *)
(* inference-time feature reconstruction, and the interleaving of a        *)
(* training call with a prediction call on the shared module-level         *)
(* instance.  Four classes implement the engine:                           *)
(*   "full"  EnsembleModel       src/services/ensemble.py                  *)
(*   "lite"  EnsembleLiteModel   src/services/ensemble_lite.py             *)
(*   "demo"  CryptoMLDemo        src/services/ml_demo.py                   *)
(*   "adv"   AdvancedMLService   src/services/advancedMLService.py         *)
(* A behaviour follows one object of one class.  A fitted library object   *)
(* (scaler, encoder, learner, combiner) is abstracted to the number of the *)
(* training run that created it and whether its fit completed.  Floating   *)
(* point values are exact rationals; rounding is not modelled.             *)
(***************************************************************************)
EXTENDS Integers, Sequences, FiniteSets, TLC

\* Number of train_ensemble / train_models calls followed in one behaviour.
MaxRuns == 2
\* Largest number of keys in a prediction request dictionary.
MaxKeys == 2

(***************************************************************************)
(* Python values that can appear in a request dictionary.                  *)
(***************************************************************************)
RECURSIVE Gcd(_, _)
Gcd(a, b) == IF b = 0 THEN a ELSE Gcd(b, a % b)

Abs(x) == IF x < 0 THEN 0 - x ELSE x

\* the float n/d, in lowest terms
Rat(n, d) ==
    LET g == Gcd(Abs(n), d)
    IN  IF g = 0 THEN [t |-> "num", n |-> 0, d |-> 1]
        ELSE [t |-> "num", n |-> n \div g, d |-> d \div g]

Num(n) == Rat(n, 1)
NaN == [t |-> "nan", n |-> 0, d |-> 1]          \* float('nan')
None == [t |-> "none", n |-> 0, d |-> 1]        \* None
Text == [t |-> "str", n |-> 0, d |-> 1]         \* a non-numeric string
Raised == [t |-> "raised", n |-> 0, d |-> 1]    \* evaluation raised an exception

IsNumber(v) == v.t = "num"

\* numpy float64 item assignment a[i] = v : None becomes nan, a non-numeric
\* string raises ValueError.
NumpySetItem(v) ==
    CASE v.t = "num" -> v
      [] v.t = "nan" -> NaN
      [] v.t = "none" -> NaN
      [] OTHER -> Raised

\* the builtin float(v): None raises TypeError, a non-numeric string ValueError.
PyFloat(v) ==
    CASE v.t = "num" -> v
      [] v.t = "nan" -> NaN
      [] OTHER -> Raised

\* np.mean of a list of four Python values.
RECURSIVE SumNum(_)
SumNum(s) ==
    IF s = <<>> THEN Num(0)
    ELSE LET r == SumNum(Tail(s))
             h == Head(s)
         IN  Rat(h.n * r.d + r.n * h.d, h.d * r.d)

NpMean(s) ==
    IF \E i \in DOMAIN s : s[i].t \in {"none", "str", "raised"} THEN Raised
    ELSE IF \E i \in DOMAIN s : s[i].t = "nan" THEN NaN
    ELSE LET t == SumNum(s) IN Rat(t.n, t.d * Len(s))

\* the Python expression a * b / 100
ProductOver100(a, b) ==
    IF a.t \in {"none", "str", "raised"} \/ b.t \in {"none", "str", "raised"} THEN Raised
    ELSE IF a.t = "nan" \/ b.t = "nan" THEN NaN
    ELSE Rat(a.n * b.n, a.d * b.d * 100)

(***************************************************************************)
(* Column names.  A name is the sequence of its '_'-separated tokens:      *)
(* 'price_sma_5' is <<"price", "sma", "5">>.                               *)
(***************************************************************************)
In(seq, x) == \E i \in DOMAIN seq : seq[i] = x

\* data[c] = ... for each c of new (distinct names), in order: a new column is
\* appended, an existing one keeps its place.
AddCols(cols, new) == cols \o SelectSeq(new, LAMBDA c : ~In(cols, c))

RECURSIVE Flatten(_)
Flatten(ss) == IF ss = <<>> THEN <<>> ELSE Head(ss) \o Flatten(Tail(ss))

\* [c for c in cols if c not in exclude]
Without(cols, exclude) == SelectSeq(cols, LAMBDA c : c \notin exclude)

\* col.startswith(prefix), prefix a whole number of tokens
StartsWith(col, prefix) ==
    /\ Len(col) >= Len(prefix)
    /\ SubSeq(col, 1, Len(prefix)) = prefix

\* sub in col, sub a whole number of tokens
Contains(col, sub) ==
    \E i \in 1..Len(col) : i + Len(sub) - 1 <= Len(col) /\ SubSeq(col, i, i + Len(sub) - 1) = sub

price == <<"price">>
volume == <<"volume">>
tech_score == <<"tech", "score">>
social_score == <<"social", "score">>
fund_score == <<"fund", "score">>
astro_score == <<"astro", "score">>

pillar_cols == <<tech_score, social_score, fund_score, astro_score>>

AllPillars(cols) == \A i \in DOMAIN pillar_cols : In(cols, pillar_cols[i])

\* EnsembleLiteModel.engineer_features: the columns of the engineered frame, or
\* <<>> when a column the code indexes unconditionally is missing (KeyError).
LiteEngineerColumns(dfcols) ==
    IF ~In(dfcols, price) \/ ~In(dfcols, tech_score) THEN <<>>
    ELSE
    LET base == <<
            <<"price", "returns">>, <<"price", "volatility">>,
            <<"price", "sma", "5">>, <<"price", "sma", "20">>, <<"price", "ratio", "sma">>,
            <<"price", "momentum">>, <<"rsi", "approx">> >>
        vol == IF In(dfcols, volume)
               THEN << <<"volume", "sma">>, <<"volume", "ratio">>, <<"price", "volume", "trend">> >>
               ELSE <<>>
        pil == Flatten([i \in DOMAIN pillar_cols |->
                 IF In(dfcols, pillar_cols[i])
                 THEN << pillar_cols[i] \o <<"sma">>, pillar_cols[i] \o <<"momentum">> >>
                 ELSE <<>>])
        comp == IF AllPillars(dfcols)
                THEN << <<"pillar", "mean">>, <<"pillar", "std">>, <<"tech", "social", "product">> >>
                ELSE <<>>
        lags == << <<"price", "lag", "1">>, <<"tech", "lag", "1">>,
                   <<"price", "lag", "3">>, <<"tech", "lag", "3">> >>
        tgt == << <<"price", "change", "pct">>, <<"target">> >>
    IN  AddCols(dfcols, base \o vol \o pil \o comp \o lags \o tgt)

\* EnsembleLiteModel.prepare_training_data: the schema selected from the frame
LiteFeatureColumns(dfcols) ==
    Without(LiteEngineerColumns(dfcols), { <<"target">>, <<"price", "change", "pct">> })

\* EnsembleModel.engineer_features: the columns of the engineered frame
FullEngineerColumns(dfcols) ==
    LET ret == << <<"price", "returns">>, <<"price", "log", "returns">>, <<"price", "volatility">> >>
        ma == Flatten([i \in 1..3 |->
                LET w == <<"5", "10", "20">>[i]
                IN  << <<"price", "ma", w>>, <<"price", "ma", w, "ratio">> >>])
        ind == << <<"rsi">>, <<"macd">>, <<"macd", "signal">>,
                  <<"bb", "upper">>, <<"bb", "lower">>, <<"bb", "position">> >>
        vol == IF In(dfcols, volume)
               THEN << <<"volume", "ma">>, <<"volume", "ratio">>, <<"price", "volume">> >>
               ELSE <<>>
        pil == Flatten([i \in DOMAIN pillar_cols |->
                 IF In(dfcols, pillar_cols[i])
                 THEN << pillar_cols[i] \o <<"ma", "5">>, pillar_cols[i] \o <<"momentum">>,
                         pillar_cols[i] \o <<"volatility">> >>
                 ELSE <<>>])
        comp == IF AllPillars(dfcols)
                THEN << <<"pillar", "composite">>, <<"pillar", "variance">>,
                        <<"tech", "social", "interaction">> >>
                ELSE <<>>
        lags == Flatten([i \in 1..4 |->
                 LET lag == <<"1", "3", "6", "12">>[i]
                 IN  << <<"price", "lag", lag>> >> \o
                     Flatten([j \in DOMAIN pillar_cols |->
                        IF In(dfcols, pillar_cols[j])
                        THEN << pillar_cols[j] \o <<"lag", lag>> >>
                        ELSE <<>>])])
        tgt == << <<"next", "price">>, <<"price", "change">>, <<"target", "class">> >>
    IN  AddCols(dfcols, ret \o ma \o ind \o vol \o pil \o comp \o lags \o tgt)

\* EnsembleModel.prepare_training_data: the schema selected from the frame
FullFeatureColumns(dfcols) ==
    Without(FullEngineerColumns(dfcols),
            { <<"timestamp">>, <<"target", "class">>, <<"next", "price">>,
              <<"price", "change">>, <<"predicted", "category">> })

\* CryptoMLDemo.generate_realistic_crypto_data: the columns of the data frame
DemoDataColumns ==
    << price, volume, tech_score, social_score, fund_score, astro_score,
       <<"price", "sma", "5">>, <<"price", "sma", "20">>, <<"price", "volatility">>,
       <<"price", "returns">>, <<"rsi", "approx">>, <<"volume", "sma">>,
       <<"price", "volume", "trend">>,
       <<"tech", "score", "momentum">>, <<"social", "score", "momentum">>,
       <<"fund", "score", "momentum">>, <<"astro", "score", "momentum">>,
       <<"price", "lag", "1">>, <<"price", "lag", "3">>,
       <<"tech", "lag", "1">>, <<"tech", "lag", "3">>,
       <<"tech", "social", "product">>, <<"pillar", "mean">>, <<"pillar", "std">>,
       <<"volume", "ratio">>, <<"price", "ratio", "sma">>, <<"price", "momentum">>,
       <<"tech", "score", "sma">>, <<"social", "score", "sma">>,
       <<"fund", "score", "sma">>, <<"astro", "score", "sma">>,
       <<"target">> >>

\* CryptoMLDemo.train_ensemble: the schema selected from the frame
DemoFeatureColumns == Without(DemoDataColumns, { <<"target">> })

(***************************************************************************)
(* Inference-time feature reconstruction.  A request dictionary is a       *)
(* function from column names to Python values.                            *)
(***************************************************************************)
Get(features, key, default) == IF key \in DOMAIN features THEN features[key] ELSE default

\* features.get(f'{p}_score', 50) for p in ['tech', 'social', 'fund', 'astro']
PillarScoresOr50(features) == [i \in DOMAIN pillar_cols |-> Get(features, pillar_cols[i], Num(50))]

\* EnsembleModel._create_feature_vector: the value left in feature_vector[i]
\* for column col (np.zeros leaves 0 where no branch assigns).
FullColumnValue(col, features) ==
    IF col \in DOMAIN features THEN NumpySetItem(features[col])
    ELSE IF StartsWith(col, price) /\ price \in DOMAIN features THEN
        IF col = price THEN NumpySetItem(features[price])
        ELSE IF StartsWith(col, <<"price", "ma">>) \/ StartsWith(col, <<"price", "lag">>)
             THEN NumpySetItem(features[price])
             ELSE Num(0)
    ELSE IF \E i \in DOMAIN pillar_cols : Contains(col, pillar_cols[i]) THEN
        LET base_pillar == SubSeq(col, 1, 2)
        IN  IF base_pillar \in DOMAIN features THEN NumpySetItem(features[base_pillar]) ELSE Num(0)
    ELSE IF col = volume /\ volume \in DOMAIN features THEN NumpySetItem(features[volume])
    ELSE IF col = <<"pillar", "composite">> THEN NumpySetItem(NpMean(PillarScoresOr50(features)))
    ELSE Num(0)

\* a faulty reconstruction: the pillar name patterns are tried before the
\* column's own key
LiteColumnValue_PatternFirst(col, features) ==
    IF Contains(col, tech_score) /\ tech_score \in DOMAIN features THEN NumpySetItem(features[tech_score])
    ELSE IF Contains(col, social_score) /\ social_score \in DOMAIN features
         THEN NumpySetItem(features[social_score])
    ELSE IF col \in DOMAIN features THEN NumpySetItem(features[col])
    ELSE Num(0)

\* EnsembleLiteModel._create_feature_vector: the value left in feature_vector[i]
LiteColumnValue(col, features) ==
    IF col \in DOMAIN features THEN NumpySetItem(features[col])
    ELSE IF col = price /\ price \in DOMAIN features THEN NumpySetItem(features[price])
    ELSE IF col = volume /\ volume \in DOMAIN features THEN NumpySetItem(features[volume])
    ELSE IF Contains(col, tech_score) /\ tech_score \in DOMAIN features
         THEN NumpySetItem(features[tech_score])
    ELSE IF Contains(col, social_score) /\ social_score \in DOMAIN features
         THEN NumpySetItem(features[social_score])
    ELSE IF Contains(col, fund_score) /\ fund_score \in DOMAIN features
         THEN NumpySetItem(features[fund_score])
    ELSE IF Contains(col, astro_score) /\ astro_score \in DOMAIN features
         THEN NumpySetItem(features[astro_score])
    ELSE IF col = <<"pillar", "mean">> THEN NumpySetItem(NpMean(PillarScoresOr50(features)))
    ELSE IF col = <<"tech", "social", "product">>
         THEN NumpySetItem(ProductOver100(Get(features, tech_score, Num(50)),
                                          Get(features, social_score, Num(50))))
    ELSE Num(0)

\* the defaults CryptoMLDemo.predict falls back to
DemoFallbackPrice == Rat(14667, 100)
DemoFallbackVolume == Num(23000000)
DemoFallbackTech == Num(35)
DemoFallbackSocial == Num(35)
DemoFallbackFund == Num(35)
DemoFallbackAstro == Num(50)
NeutralRsi == Num(50)

\* CryptoMLDemo.predict: the element appended to feature_vector for column col.
\* A supplied value goes through float(); a default is appended as it is.
DemoColumnValue(col, features) ==
    IF col \in DOMAIN features THEN PyFloat(features[col])
    ELSE IF Contains(col, <<"price">>) THEN Get(features, price, DemoFallbackPrice)
    ELSE IF Contains(col, <<"volume">>) THEN Get(features, volume, DemoFallbackVolume)
    ELSE IF Contains(col, <<"tech">>) THEN Get(features, tech_score, DemoFallbackTech)
    ELSE IF Contains(col, <<"social">>) THEN Get(features, social_score, DemoFallbackSocial)
    ELSE IF Contains(col, <<"fund">>) THEN Get(features, fund_score, DemoFallbackFund)
    ELSE IF Contains(col, <<"astro">>) THEN Get(features, astro_score, DemoFallbackAstro)
    ELSE IF Contains(col, <<"rsi">>) THEN NeutralRsi
    ELSE Num(0)

ColumnValue(v, col, features) ==
    CASE v = "full" -> FullColumnValue(col, features)
      [] v = "lite" -> LiteColumnValue(col, features)
      [] OTHER -> DemoColumnValue(col, features)

\* a faulty reconstruction: a column that is neither supplied nor
\* price-named gets no entry
CreateFeatureVector_SkipUnmatched(v, schema, features) ==
    LET known == SelectSeq(schema, LAMBDA c : c \in DOMAIN features \/ Contains(c, <<"price">>))
    IN  [raised |-> FALSE, vec |-> [i \in DOMAIN known |-> ColumnValue(v, known[i], features)]]

\* _create_feature_vector (full, lite) and the reconstruction loop of
\* CryptoMLDemo.predict: one entry per schema column in schema order, or the
\* exception raised by a conversion.
CreateFeatureVector(v, schema, features) ==
    LET vec == [i \in DOMAIN schema |-> ColumnValue(v, schema[i], features)]
    IN  IF \E i \in DOMAIN vec : vec[i] = Raised
        THEN [raised |-> TRUE, vec |-> <<>>]
        ELSE [raised |-> FALSE, vec |-> vec]

(***************************************************************************)
(* The ensemble object.                                                    *)
(***************************************************************************)
VARIABLES
    variant,          \* which class the object is an instance of
    keras,            \* KERAS_AVAILABLE / TENSORFLOW_AVAILABLE of the process
    is_trained,       \* self.is_trained
    feature_columns,  \* self.feature_columns, the schema
    fitted,           \* per component: the run that created it, whether fit, its width
    runs,             \* number of training calls started so far
    op,               \* the call that ended last: "none", "train", "predict";
                      \* "import_error" when importing the module raised
    t_result,         \* how the last training call ended
    t_n,              \* the number of observations the last training call started was given
    t_raised,         \* the statement of that call that raised, "none" if none did
    p_features,       \* the request dictionary of the last predict call
    p_was_trained,    \* is_trained when the last predict call started
    p_vector,         \* the reconstructed vector of the last predict call
    p_scaled,         \* whether that vector was handed to the scaler's transform
    p_result,         \* how the last predict call ended
    p_error,          \* the exception it raised
    p_rand,           \* the np.random.rand draw it made, 0 if it made none
    t_pc,             \* trainer thread: index of the next statement, 0 when idle
    t_data,           \* trainer thread: the data frame of the call in progress
    p_pc,             \* predictor thread: the next statement
    p_view,           \* predictor thread: the attributes it has read so far
    d_prices,         \* data preparation: the 'price' column of the frame to label
    d_labels,         \* data preparation: the target column engineer_features assigned
    d_rows,           \* data preparation: the number of rows of the frame to split
    d_last_train,     \* data preparation: position of the latest training row, 0 before the split
    d_first_test,     \* data preparation: position of the earliest held-out row, 0 before the split
    d_classes,        \* data preparation: classes_ of the fitted estimators, <<>> before the fit
    d_probs,          \* scoring: one row of the meta-combiner's predict_proba, in units of 1/ProbGrid
    d_score,          \* scoring: the scalar predict_ensemble returns for that row, None before
    d_importances,    \* importance: xgb_model.feature_importances_, one entry per schema column
    d_topk,           \* importance: the top_k of the last get_feature_importance call, -1 before
    d_top,            \* importance: the (column position, importance) pairs that call returned
    d_standin,        \* stand-in: a row of the probabilities used in place of the LSTM's
    d_standin_at,     \* stand-in: where that row was made: "none", "train", "predict"
    d_rsi,            \* data preparation: the RSI column computed from the 'price' column
    d_lstm_train,     \* data preparation: rows of X_lstm_train, 0 before it is made
    d_lstm_test,      \* data preparation: rows of X_lstm_test, 0 before it is made
    d_kept,           \* row positions of the engineered frame that carry a label
    model_dir,        \* ModelDeployment: content of each file of self.model_dir
    temp_model_dir,   \* ModelDeployment: content of each file of /tmp/training_models
    backup_dir,       \* ModelDeployment: per backup subdirectory, the content of each file
    deployments,      \* ModelDeployment: deploy_updated_models calls so far, the clock of the timestamps
    dep_pre,          \* ModelDeployment: model_dir when the latest deploy_updated_models call started
    dep_log,          \* ModelDeployment: the calls made so far, in order
    optuna_available, \* OptunaTuner: OPTUNA_AVAILABLE
    tuning_status,    \* OptunaTuner: self.tuning_status
    study,            \* OptunaTuner: per study name, the trials stored in studies/optuna_studies.db
    o_run,            \* OptunaTuner: the study.optimize call in progress
    o_last            \* OptunaTuner: the objective_function call that ended last

vars == <<variant, keras, is_trained, feature_columns, fitted, runs, op,
          t_result, t_n, t_raised,
          p_features, p_was_trained, p_vector, p_scaled, p_result, p_error, p_rand,
          t_pc, t_data, p_pc, p_view,
          d_prices, d_labels, d_rows, d_last_train, d_first_test, d_classes, d_probs, d_score, d_importances, d_topk, d_top, d_standin, d_standin_at, d_rsi, d_lstm_train, d_lstm_test, d_kept,
          model_dir, temp_model_dir, backup_dir, deployments, dep_pre, dep_log,
          optuna_available, tuning_status, study, o_run, o_last>>

objVars == <<is_trained, feature_columns, fitted>>
callVars == <<t_result, t_n, t_raised>>
predVars == <<p_features, p_was_trained, p_vector, p_scaled, p_result, p_error, p_rand>>
threadVars == <<t_pc, t_data, p_pc, p_view>>
dataVars == <<d_prices, d_labels, d_rows, d_last_train, d_first_test, d_classes, d_probs, d_score, d_importances, d_topk, d_top, d_standin, d_standin_at, d_rsi, d_lstm_train, d_lstm_test, d_kept>>
deployVars == <<model_dir, temp_model_dir, backup_dir, deployments, dep_pre, dep_log>>
tuneVars == <<optuna_available, tuning_status, study, o_run, o_last>>
svcVars == <<deployVars, tuneVars>>

Variants == {"full", "lite", "demo", "adv"}

Components == {"schema", "selector", "scaler", "encoder", "xgb", "second", "lstm", "meta"}

Comp(run, fit, nf) == [run |-> run, fit |-> fit, nf |-> nf]
\* None, or the unfitted object __init__ creates
Unset == Comp(0, FALSE, 0)

\* the object as one value
Snapshot == [is_trained |-> is_trained, feature_columns |-> feature_columns, fitted |-> fitted]

\* __init__ of the four classes
NewObject == [is_trained |-> FALSE, feature_columns |-> <<>>, fitted |-> [c \in Components |-> Unset]]

(***************************************************************************)
(* Training data.  A data frame is its column list, its row count and the  *)
(* library fit, if any, that raises on it.                                 *)
(***************************************************************************)
MinSamples == 50
SyntheticSamples == 300
SampleDataSamples == 500
FullLongestWindow == 20
AdvLongestWindow == 50
SequenceLength == 24
NClasses == 3
SelectK == 50
AdvLstmMinRows == 50

timestamp == <<"timestamp">>
AllCols == <<price, volume, tech_score, social_score, fund_score, astro_score>>
NoVolumeCols == <<price, tech_score, social_score, fund_score, astro_score>>
PriceTechCols == <<price, tech_score>>
PriceVolumeCols == <<price, volume>>

RaiseSteps == {"none", "scaler", "xgb", "second", "meta"}
RowCounts == {30, 60, 80, 140}

Shapes(v) ==
    CASE v = "lite" -> {AllCols, NoVolumeCols, PriceTechCols, PriceVolumeCols}
      [] v = "full" -> {<<timestamp>> \o AllCols, <<timestamp>> \o NoVolumeCols, PriceVolumeCols}
      [] v = "adv" -> {<<timestamp>> \o AllCols, PriceTechCols}
      [] OTHER -> {DemoDataColumns}

Frame(cols, n, raises) == [cols |-> cols, n |-> n, raises |-> raises]

DataFrames(v) ==
    IF v = "demo" THEN {Frame(DemoDataColumns, 400, "none")}
    ELSE {Frame(c, n, r) : c \in Shapes(v), n \in RowCounts, r \in RaiseSteps}

\* EnsembleLiteModel.create_synthetic_training_data
LiteSyntheticColumns == AllCols

\* EnsembleModel._generate_sample_data
FullSampleColumns ==
    <<timestamp>> \o AllCols \o << <<"predicted", "category">>, <<"confidence">> >>

\* The frame the training call works on: lite replaces a frame of fewer than
\* 50 rows by synthetic data, full replaces a table without the required
\* columns by sample data.
TrainingFrame(v, df) ==
    CASE v = "lite" ->
            IF df.n < MinSamples THEN Frame(LiteSyntheticColumns, SyntheticSamples, df.raises) ELSE df
      [] v = "full" ->
            IF ~In(df.cols, timestamp) \/ ~In(df.cols, price) \/ ~AllPillars(df.cols)
            THEN Frame(FullSampleColumns, SampleDataSamples, df.raises)
            ELSE df
      [] OTHER -> df

\* rows left by dropna(): the longest rolling window loses its first
\* window - 1 rows; full also loses the last row, whose next_price is NaN
FullEngineeredRows(n) == IF n > FullLongestWindow THEN n - FullLongestWindow ELSE 0
AdvEngineeredRows(n) == IF n > AdvLongestWindow - 1 THEN n - (AdvLongestWindow - 1) ELSE 0

\* AdvancedMLService.engineer_features / prepare_data: the number of feature
\* columns (all columns of the engineered frame but 'price' and 'timestamp')
AdvFeatureCount(dfcols) ==
    LET has(c) == In(dfcols, c)
        raw == Len(Without(dfcols, {price, timestamp}))
        pricef == IF has(price) THEN 3 + 8 + 3 + 1 ELSE 0
        volf == IF has(volume) THEN 3 ELSE 0
        pilf == Cardinality({i \in DOMAIN pillar_cols : has(pillar_cols[i])}) * 2
        inter == (IF has(tech_score) /\ has(social_score) THEN 1 ELSE 0)
                 + (IF has(price) /\ has(volume) THEN 1 ELSE 0)
        timef == IF has(timestamp) THEN 7 ELSE 0
        lagf == (IF has(price) THEN 6 ELSE 0) + (IF has(volume) THEN 6 ELSE 0)
    IN  raw + pricef + volf + pilf + inter + timef + lagf

Min(a, b) == IF a < b THEN a ELSE b

\* the frames a training call can work on
TrainingShapes(v) ==
    Shapes(v) \cup (IF v = "lite" THEN {LiteSyntheticColumns}
                    ELSE IF v = "full" THEN {FullSampleColumns} ELSE {})

\* the schema a training call selects, per class and frame
SchemaTable ==
    [v \in Variants |->
        [cols \in TrainingShapes(v) |->
            CASE v = "lite" -> LiteFeatureColumns(cols)
              [] v = "full" -> FullFeatureColumns(cols)
              [] v = "demo" -> DemoFeatureColumns
              [] OTHER -> <<>>]]

FeatureColumns(v, cols) == SchemaTable[v][cols]

\* per frame, whether lite's engineer_features raises KeyError
LiteKeyError == [cols \in TrainingShapes("lite") |-> LiteEngineerColumns(cols) = <<>>]

\* per frame, the number of feature columns adv engineers
AdvWidth == [cols \in TrainingShapes("adv") |-> AdvFeatureCount(cols)]

(***************************************************************************)
(* A training call, statement by statement.  Each class's call is the      *)
(* sequence of its statements that touch the object; a statement either    *)
(* completes (StepDone) or raises (StepRaises, leaving StepRaised).        *)
(***************************************************************************)
\* a faulty training call: is_trained is set before the fits
LiteProgram_FlagBeforeFits ==
    <<"engineer", "schema", "flag", "scaler_fit", "xgb_new", "xgb_fit",
      "second_new", "second_fit", "meta_new", "meta_fit">>

\* EnsembleLiteModel.train_ensemble with prepare_training_data inlined
LiteProgram ==
    <<"engineer", "schema", "scaler_fit", "xgb_new", "xgb_fit",
      "second_new", "second_fit", "meta_new", "meta_fit", "flag">>

\* EnsembleModel.train_ensemble with prepare_training_data, train_xgboost,
\* train_lstm and train_meta_learner inlined
FullProgram ==
    <<"engineer", "schema", "encoder_fit", "scaler_fit", "xgb_new", "xgb_fit",
      "lstm_fit", "meta_new", "meta_fit", "flag">>

\* CryptoMLDemo.train_ensemble
DemoProgram ==
    <<"schema", "scaler_fit", "xgb_new", "xgb_fit",
      "second_new", "second_fit", "meta_new", "meta_fit", "flag">>

\* AdvancedMLService.train_models with prepare_data and the train_* methods inlined
AdvProgram ==
    <<"engineer", "adv_selector", "adv_scaler", "adv_xgb", "adv_second",
      "adv_lstm", "adv_meta", "flag">>

Program(v) ==
    CASE v = "lite" -> LiteProgram
      [] v = "full" -> FullProgram
      [] v = "demo" -> DemoProgram
      [] OTHER -> AdvProgram

\* width of the matrix the learners are fitted on
FitWidth(v, data) ==
    IF v = "adv" THEN Min(SelectK, AdvWidth[data.cols])
    ELSE Len(FeatureColumns(v, data.cols))

\* len(X_train) in AdvancedMLService.prepare_data
AdvTrainRows(data) == (AdvEngineeredRows(data.n) * 8) \div 10

\* transform() of an object fitted earlier, on a matrix of the given width
TransformRaises(c, width) == ~c.fit \/ c.nf # width

\* split_idx = int(len(data) * 0.8)
SplitIdx(n) == (n * 8) \div 10

\* EnsembleModel._prepare_lstm_sequences: one sequence per row after the
\* first sequence_length rows, a single dummy sequence when there is none
LstmSequences(n) == IF n > SequenceLength THEN n - SequenceLength ELSE 1

\* rows of X_lstm_train: X_lstm[:split_idx] if len(X_lstm) > split_idx else X_lstm
LstmTrainRows(n) ==
    IF LstmSequences(n) > SplitIdx(n) THEN SplitIdx(n) ELSE LstmSequences(n)

\* rows of X_lstm_test: X_lstm[split_idx:] if len(X_lstm) > split_idx
\* else X_lstm[-len(X_test):]
LstmTestRows(n) ==
    IF LstmSequences(n) > SplitIdx(n) THEN LstmSequences(n) - SplitIdx(n)
    ELSE Min(n - SplitIdx(n), LstmSequences(n))

\* model.fit(X_lstm_train, y_train, validation_data=(X_lstm_test, y_test)):
\* Keras raises ValueError when inputs and targets differ in their number
\* of rows
LstmMisaligned(n) ==
    LstmTrainRows(n) # SplitIdx(n) \/ LstmTestRows(n) # n - SplitIdx(n)

\* whether statement st of a training call raises
StepRaises(v, st, S, data, kerasAvailable) ==
    CASE st = "engineer" ->
            (IF v = "lite" THEN LiteKeyError[data.cols]
             ELSE IF v = "full" THEN FullEngineeredRows(data.n) < MinSamples
             ELSE AdvEngineeredRows(data.n) = 0)
      [] st = "scaler_fit" -> data.raises = "scaler"
      [] st = "xgb_fit" -> data.raises = "xgb"
      [] st = "second_fit" -> data.raises = "second"
      [] st = "lstm_fit" ->
            kerasAvailable /\ (data.raises = "second" \/ LstmMisaligned(FullEngineeredRows(data.n)))
      [] st = "meta_fit" -> data.raises = "meta"
      [] st = "adv_selector" ->
            IF S.fitted["selector"] = Unset THEN data.raises = "scaler"
            ELSE TransformRaises(S.fitted["selector"], AdvWidth[data.cols])
      [] st = "adv_scaler" ->
            IF S.fitted["scaler"] = Unset THEN data.raises = "scaler"
            ELSE TransformRaises(S.fitted["scaler"], FitWidth(v, data))
      [] st = "adv_xgb" -> data.raises = "xgb"
      [] st = "adv_second" -> data.raises = "second"
      [] st = "adv_lstm" -> AdvTrainRows(data) > AdvLstmMinRows /\ data.raises = "second"
      [] st = "adv_meta" -> data.raises = "meta"
      [] OTHER -> FALSE

Put(S, c, value) == [S EXCEPT !.fitted[c] = value]

\* the object after statement st completed
StepDone(v, st, S, data, run, kerasAvailable) ==
    LET w == FitWidth(v, data)
    IN  CASE st = "schema" ->
                [Put(S, "schema", Comp(run, TRUE, w)) EXCEPT !.feature_columns = FeatureColumns(v, data.cols)]
          [] st = "encoder_fit" -> Put(S, "encoder", Comp(run, TRUE, NClasses))
          [] st = "scaler_fit" -> Put(S, "scaler", Comp(run, TRUE, w))
          [] st = "xgb_new" -> Put(S, "xgb", Comp(run, FALSE, 0))
          [] st = "xgb_fit" -> Put(S, "xgb", Comp(run, TRUE, w))
          [] st = "second_new" -> Put(S, "second", Comp(run, FALSE, 0))
          [] st = "second_fit" -> Put(S, "second", Comp(run, TRUE, w))
          [] st = "lstm_fit" ->
                IF kerasAvailable THEN Put(S, "lstm", Comp(run, TRUE, SequenceLength)) ELSE S
          [] st = "meta_new" -> Put(S, "meta", Comp(run, FALSE, 0))
          [] st = "meta_fit" -> Put(S, "meta", Comp(run, TRUE, 2 * NClasses))
          [] st = "adv_selector" ->
                IF S.fitted["selector"] = Unset
                THEN Put(S, "selector", Comp(run, TRUE, AdvWidth[data.cols]))
                ELSE S
          [] st = "adv_scaler" ->
                IF S.fitted["scaler"] = Unset THEN Put(S, "scaler", Comp(run, TRUE, w)) ELSE S
          [] st = "adv_xgb" -> Put(S, "xgb", Comp(run, TRUE, w))
          [] st = "adv_second" -> Put(S, "second", Comp(run, TRUE, w))
          [] st = "adv_lstm" ->
                IF AdvTrainRows(data) > AdvLstmMinRows THEN Put(S, "lstm", Comp(run, TRUE, w)) ELSE S
          [] st = "adv_meta" -> Put(S, "meta", Comp(run, TRUE, w))
          [] st = "flag" -> [S EXCEPT !.is_trained = TRUE]
          [] OTHER -> S

\* the object after statement st raised: a scaler's fit resets it before it
\* validates its input; adv assigns a new selector or scaler before fitting it
StepRaised(v, st, S, data, run) ==
    CASE st = "scaler_fit" -> Put(S, "scaler", Comp(run, FALSE, 0))
      [] st = "adv_selector" ->
            IF S.fitted["selector"] = Unset THEN Put(S, "selector", Comp(run, FALSE, 0)) ELSE S
      [] st = "adv_scaler" ->
            IF S.fitted["scaler"] = Unset THEN Put(S, "scaler", Comp(run, FALSE, 0)) ELSE S
      [] OTHER -> S

\* the whole call from statement k on: the object it leaves, whether it ran
\* to its end, and the statement that raised
RECURSIVE RunFrom(_, _, _, _, _, _)
RunFrom(v, k, S, data, run, kerasAvailable) ==
    IF k > Len(Program(v)) THEN [S |-> S, completed |-> TRUE, raised |-> "none"]
    ELSE LET st == Program(v)[k]
         IN  IF StepRaises(v, st, S, data, kerasAvailable)
             THEN [S |-> StepRaised(v, st, S, data, run), completed |-> FALSE, raised |-> st]
             ELSE RunFrom(v, k + 1, StepDone(v, st, S, data, run, kerasAvailable), data, run, kerasAvailable)

\* train_ensemble(df) / train_models(df) as one call
TrainCall(v, S, df, run, kerasAvailable) ==
    RunFrom(v, 1, S, TrainingFrame(v, df), run, kerasAvailable)

\* what the caller of a training call gets: full, lite and demo let the
\* exception through, adv catches it and returns {'success': False}
TrainResult(v, completed) ==
    IF completed THEN "success" ELSE IF v = "adv" THEN "error_dict" ELSE "raised"

(***************************************************************************)
(* A prediction call.  view is the object as the call reads it.            *)
(***************************************************************************)
FullDefaultPrice == Num(150)

Outcome(vector, scaled, result, error) ==
    [vector |-> vector, scaled |-> scaled, result |-> result, error |-> error]

HasNaN(vec) == \E i \in DOMAIN vec : vec[i].t \in {"nan", "none"}

\* predict_proba / transform of a fitted object on a row of the given width
ScoreRaises(c, width) == ~c.fit \/ c.nf # width

\* feature_scaler.transform / scaler.transform of the reconstructed row
ScaleRaises(view, vec) ==
    \/ ScoreRaises(view.fitted["scaler"], Len(vec))
    \/ \E i \in DOMAIN vec : vec[i].t = "str"

\* xgb_model.predict_proba of the scaled row (a NaN is a missing value to it)
XgbRaises(view, vec) == ScoreRaises(view.fitted["xgb"], Len(vec))

\* the second base learner: nn_model.predict_proba / rf_model.predict_proba
\* reject NaN; full builds the LSTM input from features.get('price', 150.0)
SecondRaises(v, view, vec, features) ==
    \/ v \in {"lite", "demo"} /\ (ScoreRaises(view.fitted["second"], Len(vec)) \/ HasNaN(vec))
    \/ v = "full" /\ Get(features, price, FullDefaultPrice).t \in {"none", "str"}

\* meta_learner.predict_proba of the stacked base predictions; full's LSTM
\* turns a NaN price into NaN predictions, which the combiner rejects
MetaRaises(v, view, features, kerasAvailable) ==
    \/ ~view.fitted["meta"].fit
    \/ /\ v = "full"
       /\ kerasAvailable
       /\ view.fitted["lstm"] # Unset
       /\ Get(features, price, FullDefaultPrice).t = "nan"

\* whether a statement between the reconstruction and the return raises
ScoringRaises(v, view, vec, features, kerasAvailable) ==
    \/ ScaleRaises(view, vec)
    \/ XgbRaises(view, vec)
    \/ SecondRaises(v, view, vec, features)
    \/ MetaRaises(v, view, features, kerasAvailable)

\* EnsembleModel.predict_ensemble without a usable LSTM: the second base
\* prediction is np.random.rand(1, n_classes), normalised
LstmFallback(v, view, kerasAvailable) ==
    v = "full" /\ ~(kerasAvailable /\ view.fitted["lstm"] # Unset)

\* the outcomes of np.random.rand that are told apart
RandDraws == {1, 2}

\* whether the call, whose outcome is out, reaches the fallback and draws
DrawsRand(v, view, out, features, kerasAvailable) ==
    /\ out.scaled
    /\ LstmFallback(v, view, kerasAvailable)
    /\ ~ScaleRaises(view, out.vector)
    /\ ~XgbRaises(view, out.vector)
    /\ ~SecondRaises(v, view, out.vector, features)

\* EnsembleModel.predict_ensemble and EnsembleLiteModel.predict_ensemble:
\* an untrained object raises; any exception after that is caught and 0.0 returned
EnginePredict(v, view, features, kerasAvailable) ==
    IF ~view.is_trained THEN Outcome(<<>>, FALSE, "raised", "NotTrained")
    ELSE LET r == CreateFeatureVector(v, view.feature_columns, features)
         IN  IF r.raised THEN Outcome(<<>>, FALSE, "zero_on_error", "none")
             ELSE IF ScoringRaises(v, view, r.vec, features, kerasAvailable)
                  THEN Outcome(r.vec, TRUE, "zero_on_error", "none")
                  ELSE Outcome(r.vec, TRUE, "value", "none")

\* CryptoMLDemo.predict after its is_trained test: nothing is caught
DemoPredict(view, features) ==
    LET r == CreateFeatureVector("demo", view.feature_columns, features)
    IN  IF r.raised THEN Outcome(<<>>, FALSE, "raised", "Exception")
        ELSE IF ScoringRaises("demo", view, r.vec, features, FALSE)
             THEN Outcome(r.vec, TRUE, "raised", "Exception")
             ELSE Outcome(r.vec, TRUE, "value", "none")

\* AdvancedMLService.predict with the default model: every failure is
\* returned as {'success': False}
AdvPredict(view) ==
    LET f == view.fitted
    IN  IF ~view.is_trained \/ f["meta"] = Unset \/ ~f["selector"].fit \/ ~f["scaler"].fit
        THEN Outcome(<<>>, FALSE, "error_dict", "none")
        ELSE Outcome(<<>>, FALSE, "value", "none")

PredictCall(v, view, features, kerasAvailable) ==
    CASE v = "demo" -> DemoPredict(view, features)
      [] v = "adv" -> AdvPredict(view)
      [] OTHER -> EnginePredict(v, view, features, kerasAvailable)

\* CryptoMLDemo.predict trains first when the object is untrained
ImplicitTraining(v, S) == v = "demo" /\ ~S.is_trained

(***************************************************************************)
(* Request dictionaries.                                                   *)
(***************************************************************************)
RequestKeys ==
    { price, volume, tech_score, social_score,
      <<"price", "lag", "1">>, <<"tech", "score", "momentum">>, <<"market", "cap">> }

RequestValues == { Num(150), Num(80), NaN, None, Text }

Requests ==
    UNION { [K -> RequestValues] : K \in {K \in SUBSET RequestKeys : Cardinality(K) <= MaxKeys} }

EmptyRequest == <<>>
PartialRequest == (price :> Num(150)) @@ (tech_score :> Num(80))

\* the requests followed through the lifecycle
LifeRequests == { EmptyRequest, PartialRequest, (price :> NaN), (volume :> Text) }

(***************************************************************************)
(* The lifecycle of one object: whole calls, one after the other.          *)
(***************************************************************************)
NoFrame == Frame(<<>>, 0, "none")

ThreadsIdle ==
    /\ t_pc = 0
    /\ t_data = NoFrame
    /\ p_pc = "idle"
    /\ p_view = NewObject

(***************************************************************************)
(* ModelDeployment (modelDeployment.py) and OptunaTuner (optunaTuner.py):  *)
(* the values of their state.                                              *)
(***************************************************************************)
\* model_files of _backup_existing_models
BackupFiles ==
    {"ensemble_xgb.pkl", "ensemble_rf.pkl", "ensemble_meta.pkl", "lstm_model.h5",
     "scaler.pkl", "feature_columns.json", "model_metadata.json"}

\* ensemble_files of _deploy_ensemble_models
EnsembleFiles == {"ensemble_xgb.pkl", "ensemble_rf.pkl", "ensemble_meta.pkl"}

\* lstm_files of _deploy_lstm_models
LstmFiles == {"lstm_model.h5", "lstm_weights.h5", "lstm_config.json"}

\* preprocessing_files of _deploy_preprocessing_artifacts
PreprocessingFiles ==
    {"scaler.pkl", "feature_columns.json", "label_encoder.pkl", "feature_selector.pkl"}

\* the file _update_model_metadata writes
MetadataFile == "model_metadata.json"

\* every file name ModelDeployment reads or writes
ModelFiles == BackupFiles \cup EnsembleFiles \cup LstmFiles \cup PreprocessingFiles \cup {MetadataFile}

\* The content of a file: os.path.exists is False for Absent; "old" is what
\* the model directory holds before any deployment, "new" a freshly trained
\* artifact of the training directory, Metadata(ts) the JSON written by the
\* deployment with timestamp ts.
Absent == [kind |-> "absent", ts |-> 0]
Artifact(kind) == [kind |-> kind, ts |-> 0]
Metadata(ts) == [kind |-> "metadata", ts |-> ts]

EmptyDir == [f \in ModelFiles |-> Absent]

\* no ModelDeployment call is followed
NoDeploy ==
    /\ model_dir = EmptyDir
    /\ temp_model_dir = EmptyDir
    /\ backup_dir = <<>>
    /\ deployments = 0
    /\ dep_pre = EmptyDir
    /\ dep_log = <<>>

\* the optimization_type values objective_function distinguishes
OptimizationTypes == {"ensemble", "lstm", "hybrid"}

\* the params dictionary sampled for trial number of the study of a type;
\* NoParams is None
ParamsOf(type, number) == [study |-> type, number |-> number]
NoParams == [study |-> "none", number |-> 0 - 1]

\* self.tuning_status after OptunaTuner.__init__; start_time and
\* estimated_completion, wall-clock strings, are not followed
NewStatus ==
    [active |-> FALSE, current_trial |-> 0, total_trials |-> 0,
     best_value |-> None, best_params |-> NoParams]

NoStudies == [type \in OptimizationTypes |-> <<>>]

\* no study.optimize call is in progress
NoRun == [type |-> "none", left |-> 0]

\* no call of the tuner has ended yet
NoCall == [call |-> "none", number |-> 0 - 1, score |-> None, returned |-> None, max_score |-> None]

\* no OptunaTuner is followed
NoTune ==
    /\ optuna_available = FALSE
    /\ tuning_status = NewStatus
    /\ study = NoStudies
    /\ o_run = NoRun
    /\ o_last = NoCall

NoServices == NoDeploy /\ NoTune

\* no data preparation is followed
NoData ==
    /\ d_prices = <<>>
    /\ d_labels = <<>>
    /\ d_rows = 0
    /\ d_last_train = 0
    /\ d_first_test = 0
    /\ d_kept = {}
    /\ d_lstm_test = 0
    /\ d_lstm_train = 0
    /\ d_rsi = <<>>
    /\ d_standin_at = "none"
    /\ d_standin = <<>>
    /\ d_top = <<>>
    /\ d_topk = 0 - 1
    /\ d_importances = <<>>
    /\ d_score = None
    /\ d_probs = <<>>
    /\ d_classes = <<>>

NoPrediction ==
    /\ p_features = EmptyRequest
    /\ p_was_trained = FALSE
    /\ p_vector = <<>>
    /\ p_scaled = FALSE
    /\ p_result = "none"
    /\ p_error = "none"
    /\ p_rand = 0

\* the processes: a class and whether TensorFlow/Keras is installed (lite and
\* demo do not import it)
Processes ==
    {<<"full", TRUE>>, <<"full", FALSE>>, <<"lite", FALSE>>, <<"demo", FALSE>>,
     <<"adv", TRUE>>, <<"adv", FALSE>>}

\* importing the module raises: advancedMLService's except ImportError branch
\* calls logger.warning before logger is assigned (NameError); ensemble.py
\* assigns logger before its try block
ImportRaises(v, kerasAvailable) == v = "adv" /\ ~kerasAvailable

Init ==
    /\ \E pr \in Processes : variant = pr[1] /\ keras = pr[2]
    /\ is_trained = NewObject.is_trained
    /\ feature_columns = NewObject.feature_columns
    /\ fitted = NewObject.fitted
    /\ runs = 0
    /\ op = IF ImportRaises(variant, keras) THEN "import_error" ELSE "none"
    /\ t_result = "none"
    /\ t_n = 0
    /\ t_raised = "none"
    /\ NoPrediction
    /\ ThreadsIdle
    /\ NoServices
    /\ NoData

Install(S) ==
    /\ is_trained' = S.is_trained
    /\ feature_columns' = S.feature_columns
    /\ fitted' = S.fitted

\* train_ensemble(df) / train_models(df) / train_ensemble()
Train ==
    /\ op # "import_error"
    /\ runs < MaxRuns
    /\ \E df \in DataFrames(variant) :
         LET out == TrainCall(variant, Snapshot, df, runs + 1, keras)
         IN  /\ Install(out.S)
             /\ t_result' = TrainResult(variant, out.completed)
             /\ t_n' = df.n
             /\ t_raised' = out.raised
    /\ runs' = runs + 1
    /\ op' = "train"
    /\ UNCHANGED <<variant, keras, dataVars, svcVars, predVars, threadVars>>

\* predict_ensemble(features) / predict(features)
Predict(features) ==
    /\ op # "import_error"
    /\ \E implicit \in {ImplicitTraining(variant, Snapshot)} :
       \E tr \in {IF implicit
                   THEN TrainCall(variant, Snapshot, Frame(DemoDataColumns, 400, "none"), runs + 1, keras)
                   ELSE [S |-> Snapshot, completed |-> TRUE, raised |-> "none"]} :
       \E out \in {PredictCall(variant, tr.S, features, keras)} :
           /\ Install(tr.S)
           /\ runs' = IF implicit THEN runs + 1 ELSE runs
           /\ t_result' = IF implicit THEN TrainResult(variant, tr.completed) ELSE t_result
           /\ t_n' = IF implicit THEN 400 ELSE t_n
           /\ t_raised' = IF implicit THEN tr.raised ELSE t_raised
           /\ p_features' = features
           /\ p_was_trained' = is_trained
           /\ p_vector' = out.vector
           /\ p_scaled' = out.scaled
           /\ p_result' = out.result
           /\ p_error' = out.error
           /\ p_rand' \in IF DrawsRand(variant, tr.S, out, features, keras) THEN RandDraws ELSE {0}
           /\ op' = "predict"
           /\ UNCHANGED <<variant, keras, dataVars, svcVars, threadVars>>

PredictLife == \E features \in LifeRequests : Predict(features)

Next == Train \/ PredictLife

Spec == Init /\ [][Next]_vars

(***************************************************************************)
(* Reconstruction on its own: every object a first successful training     *)
(* call can leave, with one pending request of at most MaxKeys keys.       *)
(***************************************************************************)
\* frames on which no library fit raises
\* full with Keras trains only on a frame whose sequences align with its labels
ReconRows(v) == IF v = "full" THEN {30, 140} ELSE {30, 80}

ReconFrames(v) ==
    IF v = "demo" THEN DataFrames(v)
    ELSE {df \in DataFrames(v) : df.raises = "none" /\ df.n \in ReconRows(v)}

InitRecon ==
    /\ \E pr \in Processes :
         /\ pr[1] # "adv"
         /\ variant = pr[1]
         /\ keras = pr[2]
         /\ \E df \in ReconFrames(pr[1]) :
              LET out == TrainCall(pr[1], NewObject, df, 1, pr[2])
              IN  /\ out.completed
                  /\ is_trained = out.S.is_trained
                  /\ feature_columns = out.S.feature_columns
                  /\ fitted = out.S.fitted
                  /\ t_n = df.n
    /\ runs = 1
    /\ op = "train"
    /\ t_result = "success"
    /\ t_raised = "none"
    /\ p_features \in Requests
    /\ p_was_trained = FALSE
    /\ p_vector = <<>>
    /\ p_scaled = FALSE
    /\ p_result = "none"
    /\ p_error = "none"
    /\ p_rand = 0
    /\ ThreadsIdle
    /\ NoServices
    /\ NoData

\* the pending request is served
Reconstruct ==
    /\ op = "train"
    /\ Predict(p_features)

NextRecon == Reconstruct

SpecRecon == InitRecon /\ [][NextRecon]_vars

(***************************************************************************)
(* A training call and a prediction call on the shared module-level        *)
(* instance, interleaved statement by statement.  Neither method takes a   *)
(* lock; each reads and writes the attributes of self one at a time.       *)
(***************************************************************************)
ConcVariants == {"full", "lite"}

\* frames the concurrent training call is given
ConcFrames(v) ==
    {df \in DataFrames(v) : df.raises \in {"none", "meta"} /\ df.n \in ReconRows(v)}

ConcRequests == {EmptyRequest, PartialRequest}

\* the fitted attributes of self a prediction call uses, per class
UsedComponents(v, kerasAvailable) ==
    CASE v = "full" ->
            {"schema", "scaler", "encoder", "xgb", "meta"}
                \cup (IF kerasAvailable THEN {"lstm"} ELSE {})
      [] v = "adv" -> {"selector", "scaler", "xgb", "second", "meta"}
      [] OTHER -> {"schema", "scaler", "xgb", "second", "meta"}

InitConc ==
    /\ \E pr \in Processes :
         /\ pr[1] \in ConcVariants
         /\ variant = pr[1]
         /\ keras = pr[2]
         /\ \E df \in ReconFrames(pr[1]) :
              LET out == TrainCall(pr[1], NewObject, df, 1, pr[2])
              IN  /\ out.completed
                  /\ is_trained = out.S.is_trained
                  /\ feature_columns = out.S.feature_columns
                  /\ fitted = out.S.fitted
                  /\ t_n = df.n
    /\ runs = 1
    /\ op = "train"
    /\ t_result = "success"
    /\ t_raised = "none"
    /\ NoPrediction
    /\ ThreadsIdle
    /\ NoServices
    /\ NoData

\* the trainer thread enters train_ensemble(df)
T_Begin ==
    /\ t_pc = 0
    /\ runs < MaxRuns
    /\ \E df \in ConcFrames(variant) :
         /\ t_data' = TrainingFrame(variant, df)
         /\ t_n' = df.n
    /\ t_raised' = "none"
    /\ t_pc' = 1
    /\ runs' = runs + 1
    /\ UNCHANGED <<variant, keras, dataVars, svcVars, objVars, op, t_result, predVars, p_pc, p_view>>

\* the trainer thread executes its next statement
T_Step ==
    /\ t_pc \in 1..Len(Program(variant))
    /\ LET st == Program(variant)[t_pc]
       IN  IF StepRaises(variant, st, Snapshot, t_data, keras)
           THEN /\ Install(StepRaised(variant, st, Snapshot, t_data, runs))
                /\ t_pc' = 0
                /\ t_result' = TrainResult(variant, FALSE)
                /\ t_raised' = st
                /\ op' = "train"
           ELSE /\ Install(StepDone(variant, st, Snapshot, t_data, runs, keras))
                /\ UNCHANGED t_raised
                /\ IF t_pc = Len(Program(variant))
                   THEN /\ t_pc' = 0
                        /\ t_result' = TrainResult(variant, TRUE)
                        /\ op' = "train"
                   ELSE /\ t_pc' = t_pc + 1
                        /\ UNCHANGED <<t_result, op>>
    /\ t_data' = IF t_pc' = 0 THEN NoFrame ELSE t_data
    /\ UNCHANGED <<variant, keras, dataVars, svcVars, runs, t_n, predVars, p_pc, p_view>>

\* the prediction call ends in its except clause: 0.0 is returned
P_Caught ==
    /\ p_result' = "zero_on_error"
    /\ p_error' = "none"
    /\ p_pc' = "idle"
    /\ op' = "predict"

P_Continue(next) ==
    /\ p_pc' = next
    /\ UNCHANGED <<p_result, p_error, op>>

\* if not self.is_trained: raise ValueError(...)
P_Begin ==
    /\ p_pc = "idle"
    /\ \E features \in ConcRequests : p_features' = features
    /\ p_was_trained' = is_trained
    /\ p_view' = [NewObject EXCEPT !.is_trained = is_trained]
    /\ p_vector' = <<>>
    /\ p_scaled' = FALSE
    /\ p_rand' = 0
    /\ IF is_trained
       THEN /\ p_pc' = "vector"
            /\ p_result' = "none"
            /\ p_error' = "none"
            /\ UNCHANGED op
       ELSE /\ p_pc' = "idle"
            /\ p_result' = "raised"
            /\ p_error' = "NotTrained"
            /\ op' = "predict"
    /\ UNCHANGED <<variant, keras, dataVars, svcVars, objVars, runs, callVars, t_pc, t_data>>

\* feature_vector = self._create_feature_vector(features)
P_Vector ==
    /\ p_pc = "vector"
    /\ p_view' = [p_view EXCEPT !.feature_columns = feature_columns,
                                !.fitted["schema"] = fitted["schema"]]
    /\ \E r \in {CreateFeatureVector(variant, feature_columns, p_features)} :
         /\ p_vector' = r.vec
         /\ IF r.raised THEN P_Caught ELSE P_Continue("scale")
    /\ UNCHANGED <<variant, keras, dataVars, svcVars, objVars, runs, callVars, t_pc, t_data,
                   p_features, p_was_trained, p_scaled, p_rand>>

\* feature_vector_scaled = self.feature_scaler.transform(...)
P_Scale ==
    /\ p_pc = "scale"
    /\ p_view' = [p_view EXCEPT !.fitted["scaler"] = fitted["scaler"]]
    /\ p_scaled' = TRUE
    /\ IF ScaleRaises(p_view', p_vector) THEN P_Caught ELSE P_Continue("xgb")
    /\ UNCHANGED <<variant, keras, dataVars, svcVars, objVars, runs, callVars, t_pc, t_data,
                   p_features, p_was_trained, p_vector, p_rand>>

\* xgb_pred = self.xgb_model.predict_proba(feature_vector_scaled)
P_Xgb ==
    /\ p_pc = "xgb"
    /\ p_view' = [p_view EXCEPT !.fitted["xgb"] = fitted["xgb"]]
    /\ IF XgbRaises(p_view', p_vector) THEN P_Caught ELSE P_Continue("second")
    /\ UNCHANGED <<variant, keras, dataVars, svcVars, objVars, runs, callVars, t_pc, t_data,
                   p_features, p_was_trained, p_vector, p_scaled, p_rand>>

\* nn_pred = self.nn_model.predict_proba(...) / lstm_pred = self.lstm_model.predict(...)
\* or, without the LSTM, len(self.label_encoder.classes_)
P_Second ==
    /\ p_pc = "second"
    /\ p_view' = [p_view EXCEPT !.fitted["second"] = fitted["second"],
                                !.fitted["lstm"] = fitted["lstm"],
                                !.fitted["encoder"] = fitted["encoder"]]
    /\ IF SecondRaises(variant, p_view', p_vector, p_features)
       THEN P_Caught /\ UNCHANGED p_rand
       ELSE /\ P_Continue("meta")
            /\ p_rand' \in IF LstmFallback(variant, p_view', keras) THEN RandDraws ELSE {0}
    /\ UNCHANGED <<variant, keras, dataVars, svcVars, objVars, runs, callVars, t_pc, t_data,
                   p_features, p_was_trained, p_vector, p_scaled>>

\* ensemble_pred = self.meta_learner.predict_proba(meta_features); return
P_Meta ==
    /\ p_pc = "meta"
    /\ p_view' = [p_view EXCEPT !.fitted["meta"] = fitted["meta"]]
    /\ IF MetaRaises(variant, p_view', p_features, keras)
       THEN P_Caught
       ELSE /\ p_result' = "value"
            /\ p_error' = "none"
            /\ p_pc' = "idle"
            /\ op' = "predict"
    /\ UNCHANGED <<variant, keras, dataVars, svcVars, objVars, runs, callVars, t_pc, t_data,
                   p_features, p_was_trained, p_vector, p_scaled, p_rand>>

NextConc ==
    \/ T_Begin
    \/ T_Step
    \/ P_Begin
    \/ P_Vector
    \/ P_Scale
    \/ P_Xgb
    \/ P_Second
    \/ P_Meta

SpecConc == InitConc /\ [][NextConc]_vars

(***************************************************************************)
(* Data preparation, as pure functions of the frame: the target column     *)
(* engineer_features assigns from the 'price' column, and the rows the      *)
(* train/held-out split puts on either side.                               *)
(***************************************************************************)
\* Largest number of rows of a price series that is labelled.
MaxRows == 4

\* prices around 100 and 200: a step of 1 is exactly 1% and 0.5% there
PriceLevels == {99, 100, 101, 102, 199, 200, 201}
PriceSeries == UNION { [1..n -> PriceLevels] : n \in 2..MaxRows }

\* threshold = 0.005 in EnsembleLiteModel, the literal 0.01 in EnsembleModel
Threshold(v) == IF v = "lite" THEN Rat(5, 1000) ELSE Rat(1, 100)

Neg(a) == [a EXCEPT !.n = 0 - a.n]

\* a faulty comparison: the band includes its boundary
Greater_OrEqual(a, b) == a.t = "num" /\ b.t = "num" /\ a.n * b.d >= b.n * a.d

\* a > b on floats: False when either is NaN
Greater(a, b) == a.t = "num" /\ b.t = "num" /\ a.n * b.d > b.n * a.d

\* a < b on floats
Less(a, b) == Greater(b, a)

\* data['price'].shift(-1): NaN in the last row
NextPrice(prices, i) == IF i < Len(prices) THEN Num(prices[i + 1]) ELSE NaN

\* (next - price) / price
PriceChange(prices, i) ==
    LET next == NextPrice(prices, i)
    IN  IF next.t = "nan" THEN NaN ELSE Rat(next.n - prices[i], prices[i])

\* Series.fillna(value)
FillNa(a, value) == IF a.t = "nan" THEN value ELSE a

\* EnsembleLiteModel.engineer_features: data['target'], three assignments
LiteTarget(prices) ==
    [i \in DOMAIN prices |->
        LET c == FillNa(PriceChange(prices, i), Num(0))
            t1 == 1
            t2 == IF Greater(c, Threshold("lite")) THEN 2 ELSE t1
        IN  IF Less(c, Neg(Threshold("lite"))) THEN 0 ELSE t2]

\* EnsembleModel.engineer_features: data['target_class'] before dropna()
FullTargetClass(prices) ==
    [i \in DOMAIN prices |->
        LET c == PriceChange(prices, i)
            t1 == "NEUTRAL"
            t2 == IF Greater(c, Threshold("full")) THEN "BULLISH" ELSE t1
        IN  IF Less(c, Neg(Threshold("full"))) THEN "BEARISH" ELSE t2]

Target(v, prices) == IF v = "lite" THEN LiteTarget(prices) ELSE FullTargetClass(prices)

\* The rows engineer_features returns, by position in the series of n rows.
\* EnsembleModel: data.dropna() removes the rows before the rolling(20)
\* window is full and the last row, whose next_price is NaN.
\* EnsembleLiteModel: every NaN is filled (price_change_pct by fillna(0),
\* the rest by ffill/bfill/0) and only the column future_price is dropped.
KeptRows(v, n) == IF v = "full" THEN FullLongestWindow..(n - 1) ELSE 1..n

\* lite's classes are numbers: 0 BEARISH, 1 NEUTRAL, 2 BULLISH
ClassName(v, label) ==
    IF v = "lite"
    THEN CASE label = 0 -> "BEARISH" [] label = 1 -> "NEUTRAL" [] OTHER -> "BULLISH"
    ELSE label

\* test_size=0.2 of train_test_split: ceil(0.2 * n) rows are held out
ShuffleTestRows(n) == (n * 2 + 9) \div 10

Split(last_train, first_test) == [last_train |-> last_train, first_test |-> first_test]

\* The latest training row and the earliest held-out row, by position in the
\* frame of n rows.  lite and full slice the engineered frame at split_idx
\* (full's engineered frame starts at row FullLongestWindow).  demo calls
\* train_test_split(X, y, test_size=0.2, random_state=42), which permutes the
\* rows first; the permutation of that seed is not reproduced, every held-out
\* set of that size is a possible outcome: either the last rows, or a set
\* with an earliest row m and some training row M after it.
Splits(v, n) ==
    CASE v = "lite" -> {Split(SplitIdx(n), SplitIdx(n) + 1)}
      [] v = "full" ->
            {Split(FullLongestWindow - 1 + SplitIdx(FullEngineeredRows(n)),
                   FullLongestWindow + SplitIdx(FullEngineeredRows(n)))}
      [] OTHER ->
            {Split(n - ShuffleTestRows(n), n - ShuffleTestRows(n) + 1)}
            \cup {Split(M, m) : m \in 1..(n - ShuffleTestRows(n)),
                                M \in (n - ShuffleTestRows(n) + 1)..n}

\* Probabilities are multiples of 1/ProbGrid.
ProbGrid == 5

\* the rows predict_proba can return for three classes: non-negative, sum 1
ProbRows == {r \in [1..NClasses -> 0..ProbGrid] : r[1] + r[2] + r[3] = ProbGrid}

\* np.max
MaxOf(row) == CHOOSE m \in {row[k] : k \in DOMAIN row} : \A k \in DOMAIN row : row[k] <= m

\* np.argmax: the first position of the maximum
ArgMax(row) == CHOOSE k \in DOMAIN row : row[k] = MaxOf(row) /\ \A j \in 1..(k - 1) : row[j] < row[k]

\* EnsembleLiteModel.predict_ensemble: (probs[2] - probs[0]) * np.max(probs)
LiteScore(row) == Rat((row[3] - row[1]) * MaxOf(row), ProbGrid * ProbGrid)

\* label_encoder.classes_ of EnsembleModel when all three labels occur
FullClasses == <<"BEARISH", "BULLISH", "NEUTRAL">>

\* EnsembleModel.predict_ensemble: the dominant class's probability, signed
\* by that class
FullScore(row) ==
    LET dominant_class_idx == ArgMax(row)
        confidence == Rat(row[dominant_class_idx], ProbGrid)
        predicted_class == FullClasses[dominant_class_idx]
    IN  CASE predicted_class = "BULLISH" -> confidence
          [] predicted_class = "BEARISH" -> Neg(confidence)
          [] OTHER -> Num(0)

\* Largest number of schema columns whose importances are ranked.
MaxFeatures == 3
\* Importances are drawn from 0..ImportanceLevels.
ImportanceLevels == 2

ImportanceVectors == UNION { [1..n -> 0..ImportanceLevels] : n \in 1..MaxFeatures }

\* importance.items(): the (column, importance) pairs in schema order
Items(importances) == [i \in DOMAIN importances |-> <<i, importances[i]>>]

\* a faulty insertion: an item goes before the items of equal importance
InsertDesc_BeforeEqual(sorted, item) ==
    LET before == SelectSeq(sorted, LAMBDA x : x[2] > item[2])
        after == SelectSeq(sorted, LAMBDA x : x[2] <= item[2])
    IN  before \o <<item>> \o after

\* one step of sorted(..., key=lambda x: x[1], reverse=True), which is
\* stable: an item goes after the items of greater or equal importance
InsertDesc(sorted, item) ==
    LET before == SelectSeq(sorted, LAMBDA x : x[2] >= item[2])
        after == SelectSeq(sorted, LAMBDA x : x[2] < item[2])
    IN  before \o <<item>> \o after

RECURSIVE SortedDesc(_)
SortedDesc(items) ==
    IF items = <<>> THEN <<>>
    ELSE InsertDesc(SortedDesc(SubSeq(items, 1, Len(items) - 1)), items[Len(items)])

\* list(...)[:top_k] for top_k >= 0
Take(s, k) == SubSeq(s, 1, Min(k, Len(s)))

\* np.random.rand(1, n_classes): every entry is a float in [0, 1), here a
\* multiple of 1/ProbGrid
RandRows == [1..NClasses -> 0..(ProbGrid - 1)]

\* EnsembleModel.train_lstm without Keras: a row of
\* np.random.rand(len(y_train), n_classes), used as drawn
TrainStandIn(draw) == [k \in DOMAIN draw |-> Rat(draw[k], ProbGrid)]

\* EnsembleModel.predict_ensemble without the LSTM:
\* lstm_pred / lstm_pred.sum(); 0/0 is nan
PredictStandIn(draw) ==
    LET total == draw[1] + draw[2] + draw[3]
    IN  [k \in DOMAIN draw |-> IF total = 0 THEN NaN ELSE Rat(draw[k], total)]

\* period=14 of _calculate_rsi_simple and _calculate_rsi, window=14 of
\* AdvancedMLService.engineer_features
RsiPeriod == 14

\* rows of a series that leaves EnsembleModel.engineer_features three rows
LongRows == FullLongestWindow + 3

\* series longer than the RSI window and the rolling(20) window: flat,
\* rising, falling, with a repeating pattern of steps around 100
LongSeries ==
    { [i \in 1..LongRows |-> 100 + a * i + c[(i % 3) + 1]] :
        a \in {0 - 1, 0, 1}, c \in {<<0, 0, 0>>, <<0, 1, 0>>, <<0, 2, 2>>} }

\* prices.diff(): NaN in the first row, which where(delta > 0, 0) and
\* where(delta < 0, 0) both turn into 0
Delta(prices, j) == IF j = 1 THEN 0 ELSE prices[j] - prices[j - 1]

\* the rows of the rolling window that ends at row i
Window(i) == {j \in 1..i : j > i - RsiPeriod}

RECURSIVE SumOver(_, _)
SumOver(f, rows) ==
    IF rows = {} THEN 0
    ELSE LET j == CHOOSE r \in rows : TRUE IN f[j] + SumOver(f, rows \ {j})

\* sum over the window of delta.where(delta > 0, 0)
Gains(prices, i) ==
    SumOver([j \in DOMAIN prices |-> IF Delta(prices, j) > 0 THEN Delta(prices, j) ELSE 0], Window(i))

\* sum over the window of -delta.where(delta < 0, 0)
Losses(prices, i) ==
    SumOver([j \in DOMAIN prices |-> IF Delta(prices, j) < 0 THEN 0 - Delta(prices, j) ELSE 0], Window(i))

\* An RSI value.  With g and l the sums of gains and losses over the window
\* and e rows in it, [g, l, e] stands for the float
\*     100 - 100 / (1 + rs)  =  100 * g / (g + l + e * 1e-8),
\* rs = (g / e) / (l / e + 1e-8); e = 0 when the code adds no 1e-8.  The
\* 1e-8 is kept as a symbol: it is too small for the integers of the model.
RsiOf(g, l, e) == [t |-> "num", g |-> g, l |-> l, e |-> e]
RsiNaN == [t |-> "nan", g |-> 0, l |-> 0, e |-> 0]

\* EnsembleLiteModel._calculate_rsi_simple: rolling(min_periods=1) means,
\* rs = gain / (loss + 1e-8), fillna(50) for the NaN that never arises
LiteRsi(prices) ==
    [i \in DOMAIN prices |->
        RsiOf(Gains(prices, i), Losses(prices, i), Cardinality(Window(i)))]

\* EnsembleModel._calculate_rsi and AdvancedMLService.engineer_features:
\* rolling(window=14) means are NaN until the window is full, rs = gain /
\* loss is NaN for 0/0 and infinite for loss = 0, which gives 100
FullRsi(prices) ==
    [i \in DOMAIN prices |->
        IF i < RsiPeriod \/ Gains(prices, i) + Losses(prices, i) = 0 THEN RsiNaN
        ELSE RsiOf(Gains(prices, i), Losses(prices, i), 0)]

\* the classes that prepare training data from a frame
DataVariants == {"lite", "full", "demo"}

\* the row counts of the frames prepare_training_data is handed
SplitRowCounts(v) == {TrainingFrame(v, df).n : df \in DataFrames(v)}

progVars == <<variant, keras, objVars, runs, op, callVars, predVars, threadVars>>

\* no frame, row or vector is handed over
NoInput == d_prices = <<>> /\ d_rows = 0 /\ d_probs = <<>> /\ d_importances = <<>>

\* a frame to label (lite and full), a frame to split, a row to score, a
\* vector of importances to rank, or the object without Keras alone
InitData ==
    /\ variant \in DataVariants
    /\ keras = FALSE
    /\ is_trained = NewObject.is_trained
    /\ feature_columns = NewObject.feature_columns
    /\ fitted = NewObject.fitted
    /\ runs = 0
    /\ op = "none"
    /\ t_result = "none"
    /\ t_n = 0
    /\ t_raised = "none"
    /\ NoPrediction
    /\ ThreadsIdle
    /\ NoServices
    /\ d_labels = <<>>
    /\ d_last_train = 0
    /\ d_first_test = 0
    /\ d_kept = {}
    /\ d_lstm_test = 0
    /\ d_lstm_train = 0
    /\ d_rsi = <<>>
    /\ d_standin_at = "none"
    /\ d_standin = <<>>
    /\ d_top = <<>>
    /\ d_topk = 0 - 1
    /\ d_score = None
    /\ d_classes = <<>>
    /\ \/ /\ variant # "demo"
          /\ d_prices \in PriceSeries \cup LongSeries
          /\ d_rows = 0 /\ d_probs = <<>> /\ d_importances = <<>>
       \/ /\ d_rows \in SplitRowCounts(variant)
          /\ d_prices = <<>> /\ d_probs = <<>> /\ d_importances = <<>>
       \/ /\ variant # "demo"
          /\ d_probs \in ProbRows
          /\ d_prices = <<>> /\ d_rows = 0 /\ d_importances = <<>>
       \/ /\ d_importances \in ImportanceVectors
          /\ d_prices = <<>> /\ d_rows = 0 /\ d_probs = <<>>
       \/ /\ variant = "full"
          /\ NoInput

\* engineer_features assigns the target column
LabelRows ==
    /\ d_prices # <<>>
    /\ d_labels = <<>>
    /\ d_labels' = Target(variant, d_prices)
    /\ d_kept' = KeptRows(variant, Len(d_prices))
    /\ UNCHANGED <<progVars, svcVars, d_prices, d_rows, d_last_train, d_first_test, d_classes, d_probs, d_score, d_importances, d_topk, d_top, d_standin, d_standin_at, d_rsi, d_lstm_train, d_lstm_test>>

\* prepare_training_data / train_ensemble splits the frame; full raises
\* before the split when fewer than 50 engineered rows are left
SplitRows ==
    /\ d_rows # 0
    /\ d_first_test = 0
    /\ variant = "full" => FullEngineeredRows(d_rows) >= MinSamples
    /\ \E sp \in Splits(variant, d_rows) :
         /\ d_last_train' = sp.last_train
         /\ d_first_test' = sp.first_test
    /\ UNCHANGED <<progVars, svcVars, d_prices, d_labels, d_rows, d_classes, d_probs, d_score, d_importances, d_topk, d_top, d_standin, d_standin_at, d_rsi, d_lstm_train, d_lstm_test, d_kept>>

\* the target values of the rows that engineer_features returns
TrainedLabels(kept, labels) == {labels[i] : i \in kept}

\* classes_ of an estimator or LabelEncoder fitted on the target values:
\* np.unique, the sorted distinct values
UniqueSorted(v, values) ==
    IF v = "full"
    THEN SelectSeq(<<"BEARISH", "BULLISH", "NEUTRAL">>, LAMBDA c : c \in values)
    ELSE SelectSeq(<<0, 1, 2>>, LAMBDA c : c \in values)

\* CryptoMLDemo.generate_realistic_crypto_data: target = (price_change > 0)
\* as int, 1 for up, 0 for down; both occur among the generated rows
DemoTargetValues == {0, 1}

\* the fits of a training call learn their classes from the target column.
\* lite and full are followed when all three labels occur; with fewer,
\* whether XGBClassifier(objective='multi:softprob') fits depends on the
\* installed xgboost
FitClasses ==
    /\ d_classes = <<>>
    /\ IF variant = "demo"
       THEN /\ d_rows # 0
            /\ d_classes' = UniqueSorted(variant, DemoTargetValues)
       ELSE /\ d_labels # <<>>
            /\ Cardinality(TrainedLabels(d_kept, d_labels)) = NClasses
            /\ d_classes' = UniqueSorted(variant, TrainedLabels(d_kept, d_labels))
    /\ UNCHANGED <<progVars, svcVars, d_prices, d_labels, d_rows, d_last_train, d_first_test, d_probs, d_score, d_importances, d_topk, d_top, d_standin, d_standin_at, d_rsi, d_lstm_train, d_lstm_test, d_kept>>

\* the label a target value stands for when the training data is labelled
EncodedName(v, value) ==
    IF v = "demo" THEN (IF value = 1 THEN "BULLISH" ELSE "BEARISH")
    ELSE ClassName(v, value)

\* the label predict reads column k of the meta-combiner's predict_proba
\* as: lite takes probs[0] as BEARISH and probs[2] as BULLISH, full asks
\* label_encoder.inverse_transform, demo calls column 1 BULLISH
PredictedName(v, classes, k) ==
    CASE v = "lite" -> <<"BEARISH", "NEUTRAL", "BULLISH">>[k]
      [] v = "full" -> classes[k]
      [] OTHER -> IF k = 2 THEN "BULLISH" ELSE "BEARISH"

\* the end of predict_ensemble: the returned scalar
ScoreRow ==
    /\ d_probs # <<>>
    /\ d_score = None
    /\ d_score' = IF variant = "lite" THEN LiteScore(d_probs) ELSE FullScore(d_probs)
    /\ UNCHANGED <<progVars, svcVars, d_prices, d_labels, d_rows, d_last_train, d_first_test,
                   d_classes, d_probs, d_importances, d_topk, d_top, d_standin, d_standin_at, d_rsi, d_lstm_train, d_lstm_test, d_kept>>

\* get_feature_importance(top_k) on a trained object
GetFeatureImportance ==
    /\ d_importances # <<>>
    /\ d_topk = 0 - 1
    /\ \E top_k \in 0..(MaxFeatures + 1) :
         /\ d_topk' = top_k
         /\ d_top' = Take(SortedDesc(Items(d_importances)), top_k)
    /\ UNCHANGED <<progVars, svcVars, d_prices, d_labels, d_rows, d_last_train, d_first_test,
                   d_classes, d_probs, d_score, d_importances, d_standin, d_standin_at, d_rsi, d_lstm_train, d_lstm_test, d_kept>>

\* train_lstm returns stand-in predictions for the meta-combiner
StandInTrain ==
    /\ variant = "full" /\ ~keras
    /\ NoInput
    /\ d_standin_at = "none"
    /\ \E draw \in RandRows : d_standin' = TrainStandIn(draw)
    /\ d_standin_at' = "train"
    /\ UNCHANGED <<progVars, svcVars, d_prices, d_labels, d_rows, d_last_train, d_first_test,
                   d_classes, d_probs, d_score, d_importances, d_topk, d_top, d_rsi, d_lstm_train, d_lstm_test, d_kept>>

\* predict_ensemble makes the stand-in row of one request
StandInPredict ==
    /\ variant = "full" /\ ~keras
    /\ NoInput
    /\ d_standin_at = "none"
    /\ \E draw \in RandRows : d_standin' = PredictStandIn(draw)
    /\ d_standin_at' = "predict"
    /\ UNCHANGED <<progVars, svcVars, d_prices, d_labels, d_rows, d_last_train, d_first_test,
                   d_classes, d_probs, d_score, d_importances, d_topk, d_top, d_rsi, d_lstm_train, d_lstm_test, d_kept>>

\* EnsembleModel.prepare_training_data cuts the LSTM sequences
PrepareLstm ==
    /\ variant = "full"
    /\ d_rows # 0
    /\ FullEngineeredRows(d_rows) >= MinSamples
    /\ d_lstm_train = 0
    /\ d_lstm_train' = LstmTrainRows(FullEngineeredRows(d_rows))
    /\ d_lstm_test' = LstmTestRows(FullEngineeredRows(d_rows))
    /\ UNCHANGED <<progVars, svcVars, d_prices, d_labels, d_rows, d_last_train, d_first_test,
                   d_classes, d_probs, d_score, d_importances, d_topk, d_top,
                   d_standin, d_standin_at, d_rsi, d_kept>>

\* engineer_features computes the RSI column
ComputeRsi ==
    /\ d_prices # <<>>
    /\ d_rsi = <<>>
    /\ d_rsi' = IF variant = "lite" THEN LiteRsi(d_prices) ELSE FullRsi(d_prices)
    /\ UNCHANGED <<progVars, svcVars, d_prices, d_labels, d_rows, d_last_train, d_first_test,
                   d_classes, d_probs, d_score, d_importances, d_topk, d_top,
                   d_standin, d_standin_at, d_lstm_train, d_lstm_test, d_kept>>

NextData ==
    \/ LabelRows \/ SplitRows \/ FitClasses \/ ScoreRow \/ GetFeatureImportance
    \/ StandInTrain \/ StandInPredict \/ ComputeRsi \/ PrepareLstm

SpecData == InitData /\ [][NextData]_vars

(***************************************************************************)
(* Properties.                                                             *)
(***************************************************************************)

\* C1: a predict call on an ensemble on which no training call has ever
\* completed (is_trained false when the call starts) raises the not-trained
\* error to its caller and returns no prediction value.
C1_UntrainedPredictRaises ==
    (op = "predict" /\ ~p_was_trained) => (p_result = "raised" /\ p_error = "NotTrained")

\* C2: no predict call, succeeding or failing, changes is_trained, the
\* schema or any fitted component, and none starts a training run.
C2_PredictReadOnly ==
    [][op' = "predict" => UNCHANGED <<is_trained, feature_columns, fitted, runs>>]_vars

\* C3: is_trained is false on a new object, turns from false to true only in
\* a step that ends a training call which completed without error, and is
\* never set back to false.
C3_IsTrainedMonotone ==
    /\ ~is_trained
    /\ [][/\ is_trained => is_trained'
          /\ (~is_trained /\ is_trained') => (runs' = runs + 1 /\ t_result' = "success")]_vars

\* a trained object goes through a later training call that fails, and stays trained
C3_Witness ==
    is_trained /\ runs = 2 /\ op = "train" /\ t_result = "raised"

\* C4: a training call that fails, at whatever statement, leaves is_trained,
\* the schema and every fitted component exactly as they were before the call.
C4_FailedTrainLeavesSnapshot ==
    [][(runs' = runs + 1 /\ t_result' \in {"raised", "error_dict"})
          => UNCHANGED <<is_trained, feature_columns, fitted>>]_vars

\* C5: after a successful training call on an already trained object, every
\* component a prediction uses was created and fitted by that call.
C5_RetrainRefitsAll ==
    [][(is_trained /\ runs' = runs + 1 /\ t_result' = "success")
          => \A c \in UsedComponents(variant, keras) :
                fitted'[c].fit /\ fitted'[c].run = runs']_vars

\* C6: a predict call that runs concurrently with a training call on the same
\* trained instance and returns a prediction has used schema, scaler, base
\* learners and combiner that all come from one training run.
C6_PredictSeesOneRun ==
    (p_pc = "idle" /\ p_result = "value")
        => \A c, d \in UsedComponents(variant, keras) :
              p_view.fitted[c].run = p_view.fitted[d].run

\* C7: for a trained object and any request dictionary (a subset of the
\* schema names, unknown extra keys, or empty) the reconstructed vector has
\* exactly len(schema) entries, one per schema column in schema order; a
\* request whose values are all floats always gets its vector.
C7_VectorMatchesSchema ==
    op = "predict" =>
        /\ p_scaled =>
              /\ DOMAIN p_vector = DOMAIN feature_columns
              /\ \A i \in DOMAIN p_vector :
                    p_vector[i] = ColumnValue(variant, feature_columns[i], p_features)
        /\ (\A k \in DOMAIN p_features : p_features[k].t \in {"num", "nan"}) => p_scaled

\* a request with a key no schema column has is reconstructed to full length
C7_Witness ==
    /\ op = "predict"
    /\ p_scaled
    /\ DOMAIN p_features = { <<"market", "cap">> }
    /\ Len(p_vector) = Len(feature_columns)
    /\ Len(p_vector) > 0

\* C8: a schema column whose name is a key of the request holds, at its
\* position in the vector, exactly the supplied float, whatever other keys
\* are present and whatever defaulting pattern its name also matches.
C8_SuppliedValueVerbatim ==
    (op = "predict" /\ p_scaled) =>
        \A i \in DOMAIN p_vector :
            (/\ i \in DOMAIN feature_columns
             /\ feature_columns[i] \in DOMAIN p_features
             /\ p_features[feature_columns[i]].t \in {"num", "nan"})
                => p_vector[i] = p_features[feature_columns[i]]

\* 'tech_score_momentum' is supplied next to a different 'tech_score', the
\* key its name pattern would default to
C8_Witness ==
    /\ op = "predict"
    /\ p_scaled
    /\ variant = "lite"
    /\ DOMAIN p_features = { tech_score, <<"tech", "score", "momentum">> }
    /\ p_features[tech_score] = Num(150)
    /\ p_features[<<"tech", "score", "momentum">>] = Num(80)
    /\ In(feature_columns, <<"tech", "score", "momentum">>)

\* C9: whatever the request holds, every entry of a vector handed to the
\* scaler is a finite number; otherwise the call fails before scaling.
C9_OnlyNumbersReachScaler ==
    (op = "predict" /\ p_scaled) => \A i \in DOMAIN p_vector : IsNumber(p_vector[i])

\* C10: a price-derived schema column (a price moving average, lag, return
\* or ratio) that is not a key of the request gets the supplied 'price', or
\* one fixed fallback price when 'price' is not supplied; a missing
\* volume-derived column likewise with 'volume'.
C10_DerivedColumnsDefaultToBase ==
    LET PriceDerived(col) == col # price /\ StartsWith(col, price) /\ ~Contains(col, volume)
        VolumeDerived(col) == col # volume /\ StartsWith(col, volume)
        Missing(derived(_), i) ==
            /\ i \in DOMAIN feature_columns
            /\ derived(feature_columns[i])
            /\ feature_columns[i] \notin DOMAIN p_features
        ResolvesToBase(derived(_), base) ==
            \A i \in DOMAIN p_vector :
                Missing(derived, i) =>
                    IF base \in DOMAIN p_features
                    THEN IsNumber(p_features[base]) => p_vector[i] = p_features[base]
                    ELSE /\ IsNumber(p_vector[i])
                         /\ \A j \in DOMAIN p_vector :
                               Missing(derived, j) => p_vector[j] = p_vector[i]
    IN  (op = "predict" /\ p_scaled) =>
            /\ ResolvesToBase(PriceDerived, price)
            /\ ResolvesToBase(VolumeDerived, volume)

\* the neutral value each class uses for a pillar score that is not
\* supplied: CryptoMLDemo.predict has one per pillar, the other two classes
\* use features.get(f'{p}_score', 50) where they default a pillar at all
PillarBaseline(v, pillar) ==
    IF v = "demo"
    THEN CASE pillar = tech_score -> DemoFallbackTech
           [] pillar = social_score -> DemoFallbackSocial
           [] pillar = fund_score -> DemoFallbackFund
           [] OTHER -> DemoFallbackAstro
    ELSE Num(50)

\* C11: a pillar-score schema column (a pillar score or a column derived
\* from one) that is not a key of the request, and whose base pillar score
\* is not supplied either, gets that pillar's fixed neutral baseline.
C11_MissingPillarGetsBaseline ==
    (op = "predict" /\ p_scaled) =>
        \A i \in DOMAIN p_vector : \A k \in DOMAIN pillar_cols :
            (/\ i \in DOMAIN feature_columns
             /\ Contains(feature_columns[i], pillar_cols[k])
             /\ feature_columns[i] \notin DOMAIN p_features
             /\ pillar_cols[k] \notin DOMAIN p_features)
                => p_vector[i] = PillarBaseline(variant, pillar_cols[k])

\* the cross-pillar mean column: data['pillar_mean'] / data['pillar_composite']
CompositeColumn(v) == IF v = "full" THEN <<"pillar", "composite">> ELSE <<"pillar", "mean">>

\* the tech-social interaction column: data['tech_social_product'] /
\* data['tech_social_interaction'], both tech_score * social_score / 100
InteractionColumn(v) ==
    IF v = "full" THEN <<"tech", "social", "interaction">> ELSE <<"tech", "social", "product">>

\* C12: in every reconstructed vector a missing composite or interaction
\* column agrees with the pillar columns of the same vector: the pillar-mean
\* entry is the mean of the four resolved pillar-score entries, the
\* tech-social entry is tech * social / 100 of the resolved entries.
C12_CompositesRecomputed ==
    LET At(col) == p_vector[CHOOSE i \in DOMAIN feature_columns : feature_columns[i] = col]
        Missing(col) == In(feature_columns, col) /\ col \notin DOMAIN p_features
    IN  (op = "predict" /\ p_scaled /\ Len(p_vector) = Len(feature_columns)) =>
            /\ (Missing(CompositeColumn(variant)) /\ AllPillars(feature_columns))
                  => At(CompositeColumn(variant))
                        = NpMean([k \in DOMAIN pillar_cols |-> At(pillar_cols[k])])
            /\ (/\ Missing(InteractionColumn(variant))
                /\ In(feature_columns, tech_score)
                /\ In(feature_columns, social_score))
                  => At(InteractionColumn(variant))
                        = ProductOver100(At(tech_score), At(social_score))

\* C13: two consecutive predict calls with the same request on the same
\* trained snapshot return the same output: the same result, the same error
\* and the same base predictions fed to the meta-combiner, also when the
\* sequence learner is unavailable.
C13_PredictDeterministic ==
    [][(/\ op = "predict" /\ op' = "predict"
        /\ is_trained
        /\ p_features' = p_features
        /\ UNCHANGED <<objVars, runs>>)
          => /\ p_result' = p_result
             /\ p_error' = p_error
             /\ p_vector' = p_vector
             /\ p_rand' = p_rand]_vars

\* C14: in a process without TensorFlow/Keras the module loads, no training
\* call raises at the sequence learner's step, a training call in which no
\* statement raises ends successfully with the object trained, and a predict
\* call with an empty request that follows a successful training returns a
\* value.
C14_WorksWithoutKeras ==
    ~keras =>
        /\ op # "import_error"
        /\ t_raised \notin {"lstm_fit", "adv_lstm"}
        /\ (op = "train" /\ t_raised = "none") => (t_result = "success" /\ is_trained)
        /\ (op = "predict" /\ p_was_trained /\ t_result = "success" /\ p_features = EmptyRequest)
              => p_result = "value"

\* C15: when the fit of a base learner raises during a training call, the
\* call absorbs it: the meta-combiner is fitted by this call and the call
\* ends successfully with the object trained.
C15_BaseFitFailureAbsorbed ==
    (op = "train" /\ t_raised \in {"xgb_fit", "second_fit", "lstm_fit",
                                   "adv_xgb", "adv_second", "adv_lstm"})
        => /\ t_result = "success"
           /\ is_trained
           /\ fitted["meta"] = Comp(runs, TRUE, fitted["meta"].nf)

\* the statement at which a training call raises its insufficient-data
\* error: only EnsembleModel.prepare_training_data has one,
\* raise ValueError("Insufficient data for training: ...")
InsufficientData(v, st) == v = "full" /\ st = "engineer"

\* C16: a first training call given fewer than 50 observations fails with
\* the insufficient-data error, raised to the caller, and leaves the object
\* untrained; a training call given at least 50 observations does not fail
\* with that error.
C16_InsufficientDataThreshold ==
    (op = "train" /\ runs = 1) =>
        /\ t_n < MinSamples =>
              /\ t_result = "raised"
              /\ InsufficientData(variant, t_raised)
              /\ ~is_trained
        /\ t_n >= MinSamples => ~InsufficientData(variant, t_raised)

\* C17: a predict call on a trained object either returns a result computed
\* by the fitted meta-combiner or raises an error to its caller; a failure
\* inside the call is never turned into a returned prediction value.
C17_FailureNeverReturned ==
    (op = "predict" /\ p_was_trained) =>
        /\ p_result \in {"value", "raised"}
        /\ p_result = "value" => fitted["meta"].fit

\* C18: whenever the object is trained, the schema has as many columns as
\* the scaler and every base learner on the request vector were fitted on;
\* and a predict call that finds them different raises a schema-mismatch
\* error instead of returning a value.
C18_SchemaWidthAgrees ==
    LET learners == {"scaler", "xgb"} \cup (IF variant = "full" THEN {} ELSE {"second"})
        agrees == \A c \in learners :
                      fitted[c].fit => fitted[c].nf = Len(feature_columns)
    IN  variant # "adv" =>
            /\ is_trained => agrees
            /\ (op = "predict" /\ p_was_trained /\ ~agrees)
                  => (p_result = "raised" /\ p_error = "SchemaMismatch")

\* C19: after the split every held-out row comes later in the series than
\* every training row: the latest training row is before the earliest
\* held-out row.
C19_SplitByPosition ==
    d_first_test # 0 => d_last_train < d_first_test

\* C20: every row gets exactly one of BEARISH, NEUTRAL, BULLISH from its
\* next-step change c = (next - price) / price and the threshold t: BULLISH
\* exactly when c > t, BEARISH exactly when c < -t, NEUTRAL otherwise, so
\* c = t and c = -t are NEUTRAL; the last row, which has no next price, is
\* NEUTRAL.
C20_LabelBands ==
    d_labels # <<>> =>
        /\ DOMAIN d_labels = DOMAIN d_prices
        /\ \A i \in DOMAIN d_labels :
             LET name == ClassName(variant, d_labels[i])
                 t == Threshold(variant)
                 rise == IF i < Len(d_prices) THEN d_prices[i + 1] - d_prices[i] ELSE 0
                 band == t.n * d_prices[i]
             IN  /\ name \in {"BEARISH", "NEUTRAL", "BULLISH"}
                 /\ name = "BULLISH" <=> rise * t.d > band
                 /\ name = "BEARISH" <=> rise * t.d < 0 - band
                 /\ (rise * t.d = band \/ rise * t.d = 0 - band) => name = "NEUTRAL"

\* a labelled series with a row exactly on the upper boundary and a row
\* exactly on the lower boundary, both NEUTRAL
C20_Witness ==
    /\ d_labels # <<>>
    /\ \E i, j \in 1..(Len(d_prices) - 1) :
         /\ PriceChange(d_prices, i) = Threshold(variant)
         /\ PriceChange(d_prices, j) = Neg(Threshold(variant))
         /\ ClassName(variant, d_labels[i]) = "NEUTRAL"
         /\ ClassName(variant, d_labels[j]) = "NEUTRAL"

\* C21: after the fits of a training call the ensemble has exactly the three
\* classes BEARISH, NEUTRAL, BULLISH, one probability column each, and
\* predict reads every column as the label that column's class was encoded
\* from.
C21_ThreeClassesStableEncoding ==
    d_classes # <<>> =>
        /\ Len(d_classes) = 3
        /\ {EncodedName(variant, d_classes[k]) : k \in DOMAIN d_classes}
              = {"BEARISH", "NEUTRAL", "BULLISH"}
        /\ \A k \in DOMAIN d_classes :
              PredictedName(variant, d_classes, k) = EncodedName(variant, d_classes[k])

\* C22: the scalar predict returns is (P(BULLISH) - P(BEARISH)) times the
\* largest class probability of the meta-combiner's row, in every class; so
\* it lies in [-1, 1] and has the sign of P(BULLISH) - P(BEARISH).
C22_ScoreFormula ==
    LET classes == IF variant = "lite" THEN <<"BEARISH", "NEUTRAL", "BULLISH">> ELSE FullClasses
        P(name) == d_probs[CHOOSE k \in DOMAIN classes : classes[k] = name]
    IN  d_score # None =>
            /\ d_score = Rat((P("BULLISH") - P("BEARISH")) * MaxOf(d_probs), ProbGrid * ProbGrid)
            /\ d_score.n <= d_score.d /\ 0 - d_score.n <= d_score.d
            /\ d_score.n > 0 <=> P("BULLISH") > P("BEARISH")
            /\ d_score.n < 0 <=> P("BULLISH") < P("BEARISH")

\* C23: get_feature_importance(top_k) returns at most top_k pairs, all of
\* them there are when top_k allows; each pair is a schema column with its
\* own importance; the pairs are in non-increasing order of importance, equal
\* importances in schema order; and no column left out ranks before a
\* column returned.
C23_TopKStableOrder ==
    LET Before(a, b) == a[2] > b[2] \/ (a[2] = b[2] /\ a[1] < b[1])
    IN  d_topk >= 0 =>
            /\ Len(d_top) = Min(d_topk, Len(d_importances))
            /\ \A i \in DOMAIN d_top :
                  d_top[i][1] \in DOMAIN d_importances /\ d_top[i][2] = d_importances[d_top[i][1]]
            /\ \A i \in 1..(Len(d_top) - 1) : Before(d_top[i], d_top[i + 1])
            /\ \A f \in DOMAIN d_importances :
                  (\A i \in DOMAIN d_top : d_top[i][1] # f)
                      => \A i \in DOMAIN d_top : Before(d_top[i], <<f, d_importances[f]>>)

\* a call that cut the ranking inside a group of equal importances
C23_Witness ==
    /\ d_topk >= 1
    /\ d_topk < Len(d_importances)
    /\ \E f \in DOMAIN d_importances :
         /\ \A i \in DOMAIN d_top : d_top[i][1] # f
         /\ d_importances[f] = d_top[Len(d_top)][2]

\* C24: whenever the object is trained, the installed meta-combiner comes
\* from the same training call as every installed base learner: no base
\* learner is replaced while an older meta-combiner stays in use.
C24_MetaFromSameRun ==
    (variant # "adv" /\ is_trained) =>
        \A c \in {"xgb", "second", "lstm"} :
            fitted[c] # Unset => fitted[c].run = fitted["meta"].run

\* C25: every stand-in row used for the unavailable sequence learner, in
\* training and at prediction time, is the uniform distribution over the
\* classes: each entry is 1/3, so the row is non-negative and sums to 1.
C25_StandInUniform ==
    d_standin_at # "none" =>
        \A k \in DOMAIN d_standin : d_standin[k] = Rat(1, NClasses)

\* C26: every entry of the RSI column is a number in [0, 100], and a row
\* whose look-back window holds no gain and no loss (a flat price, the first
\* row) has the neutral value 50.  A value 100 * g / (g + l + e * 1e-8) with
\* g, l >= 0 is in [0, 100]; it is 50 exactly when e = 0 and g = l > 0.
C26_RsiRangeAndNeutral ==
    \A i \in DOMAIN d_rsi :
        /\ d_rsi[i].t = "num"
        /\ d_rsi[i].g >= 0 /\ d_rsi[i].l >= 0
        /\ (\A j \in Window(i) : Delta(d_prices, j) = 0)
              => (d_rsi[i].e = 0 /\ d_rsi[i].g = d_rsi[i].l /\ d_rsi[i].g > 0)

\* C27: for every engineered row count n >= 50 the sequence-learner inputs
\* are row-aligned with the labels: X_lstm_train has len(y_train) = split_idx
\* rows and X_lstm_test has len(y_test) = n - split_idx rows.
C27_LstmRowsAligned ==
    d_lstm_train # 0 =>
        LET n == FullEngineeredRows(d_rows)
        IN  /\ d_lstm_train = SplitIdx(n)
            /\ d_lstm_test = n - SplitIdx(n)


\* C28: every row that engineer_features returns with a label has a next
\* observation from which its price change was computed; the last row of the
\* series, whose next price is NaN, is not among the labelled rows
C28_LabelledRowsHaveSuccessor ==
    \A i \in d_kept : NextPrice(d_prices, i).t = "num"


(***************************************************************************)
(* ModelDeployment: deploy_updated_models and rollback_deployment, each    *)
(* followed as one call on the files of the model directory.               *)
(***************************************************************************)
\* Largest number of files present in the model directory before the first
\* deployment, and in the training directory.
MaxPresent == 1

\* Largest number of deploy_updated_models calls.
MaxDeploys == 2

\* Largest number of ModelDeployment calls followed.
MaxCalls == 3

\* a model of no class takes part: an untrained object that is left alone
IdleProgram ==
    /\ variant = "lite"
    /\ keras = FALSE
    /\ is_trained = NewObject.is_trained
    /\ feature_columns = NewObject.feature_columns
    /\ fitted = NewObject.fitted
    /\ runs = 0
    /\ op = "none"
    /\ t_result = "none"
    /\ t_n = 0
    /\ t_raised = "none"
    /\ NoPrediction
    /\ ThreadsIdle
    /\ NoData

\* the directories in which at most MaxPresent of the files exist, all with
\* content of one kind
Dirs(kind) ==
    {[f \in ModelFiles |-> IF f \in present THEN Artifact(kind) ELSE Absent] :
        present \in {fs \in SUBSET ModelFiles : Cardinality(fs) <= MaxPresent}}

InitDeploy ==
    /\ IdleProgram
    /\ NoTune
    /\ model_dir \in Dirs("old")
    /\ temp_model_dir \in Dirs("new")
    /\ backup_dir = <<>>
    /\ deployments = 0
    /\ dep_pre = EmptyDir
    /\ dep_log = <<>>

\* _backup_existing_models: the new subdirectory of backup_dir receives a
\* copy of every file of model_files that exists in model_dir
BackupExistingModels(dir) ==
    [f \in ModelFiles |-> IF f \in BackupFiles /\ dir[f] # Absent THEN dir[f] ELSE Absent]

\* the loop of _deploy_ensemble_models, _deploy_lstm_models and
\* _deploy_preprocessing_artifacts: shutil.copy2 of every listed file that
\* exists in the training directory
DeployFiles(files, temp, dir) ==
    [f \in ModelFiles |-> IF f \in files /\ temp[f] # Absent THEN temp[f] ELSE dir[f]]

\* _update_model_metadata: open(metadata_path, 'w') and json.dump
UpdateModelMetadata(dir, ts) == [dir EXCEPT ![MetadataFile] = Metadata(ts)]

\* the loop of rollback_deployment: every file of os.listdir(backup_subdir)
\* is copied over the file of that name in model_dir
RestoreFiles(backup, dir) ==
    [f \in ModelFiles |-> IF backup[f] # Absent THEN backup[f] ELSE dir[f]]

Call(call, ts, success) == [call |-> call, ts |-> ts, success |-> success]

\* deploy_updated_models.  Its timestamp is datetime.now().isoformat(); the
\* clock is taken to advance between two calls, so every call makes a
\* backup subdirectory of its own.  _validate_deployment only reads.
DeployUpdatedModels ==
    /\ deployments < MaxDeploys
    /\ Len(dep_log) < MaxCalls
    /\ deployments' = deployments + 1
    /\ dep_pre' = model_dir
    /\ backup_dir' = Append(backup_dir, BackupExistingModels(model_dir))
    /\ model_dir' =
           UpdateModelMetadata(
               DeployFiles(PreprocessingFiles, temp_model_dir,
                   DeployFiles(LstmFiles, temp_model_dir,
                       DeployFiles(EnsembleFiles, temp_model_dir, model_dir))),
               deployments + 1)
    /\ dep_log' = Append(dep_log, Call("deploy", deployments + 1, TRUE))
    /\ UNCHANGED <<progVars, dataVars, tuneVars, temp_model_dir>>

\* rollback_deployment(backup_timestamp)
RollbackDeployment ==
    /\ Len(dep_log) < MaxCalls
    /\ \E ts \in 1..MaxDeploys :
         IF ts \notin DOMAIN backup_dir
         THEN /\ dep_log' = Append(dep_log, Call("rollback", ts, FALSE))
              /\ UNCHANGED model_dir
         ELSE /\ model_dir' = RestoreFiles(backup_dir[ts], model_dir)
              /\ dep_log' = Append(dep_log, Call("rollback", ts, TRUE))
    /\ UNCHANGED <<progVars, dataVars, tuneVars, temp_model_dir, backup_dir, deployments, dep_pre>>

NextDeploy == DeployUpdatedModels \/ RollbackDeployment

SpecDeploy == InitDeploy /\ [][NextDeploy]_vars

\* C29: after deploy_updated_models followed by rollback_deployment with the
\* timestamp of the backup that deploy made, the model directory holds
\* exactly the files it held before the deploy, with their content of then:
\* overwritten files are restored and newly created files are gone
C29_RollbackRestoresPreDeploy ==
    (/\ Len(dep_log) >= 2
     /\ dep_log[Len(dep_log)] = Call("rollback", deployments, TRUE)
     /\ dep_log[Len(dep_log) - 1] = Call("deploy", deployments, TRUE))
        => model_dir = dep_pre


(***************************************************************************)
(* OptunaTuner: start_optimization, followed as its status update, one     *)
(* objective_function call per trial of study.optimize, and its final      *)
(* status update.                                                          *)
(***************************************************************************)
\* Scores are multiples of 1/ScoreGrid in [0, 1].
ScoreGrid == 2

\* Largest number of trials stored over all studies.
MaxTrials == 3

\* What an evaluator can return: every evaluator adds np.random.normal noise
\* to its score and clamps it, so any value of the range is possible
\* whatever the parameters are.
Scores == {Rat(k, ScoreGrid) : k \in 0..ScoreGrid}

\* max(a, b) of two floats
PyMax(a, b) == IF Greater(b, a) THEN b ELSE a

\* trials stored over all studies
StoredTrials == Len(study["ensemble"]) + Len(study["lstm"]) + Len(study["hybrid"])

\* the trials of a study whose value no other trial exceeds: study.best_trial
\* is one of them
BestTrials(trials) ==
    {i \in DOMAIN trials : \A j \in DOMAIN trials : ~Greater(trials[j].value, trials[i].value)}

EndedCall(call, number, score, returned, max_score) ==
    [call |-> call, number |-> number, score |-> score, returned |-> returned,
     max_score |-> max_score]

InitTune ==
    /\ IdleProgram
    /\ NoDeploy
    /\ optuna_available \in BOOLEAN
    /\ tuning_status = NewStatus
    /\ study = NoStudies
    /\ o_run = NoRun
    /\ o_last = NoCall

\* OptunaTuner(): a new tuner object; the studies stay in the SQLite storage
NewTuner ==
    /\ o_run = NoRun
    /\ o_last # NoCall
    /\ tuning_status' = NewStatus
    /\ o_last' = NoCall
    /\ UNCHANGED <<progVars, dataVars, deployVars, optuna_available, study, o_run>>

\* start_optimization up to study.optimize: raises and is caught when Optuna
\* is missing, else updates the status (best_value and best_params are not
\* among the updated keys) and creates or loads the study
StartOptimization ==
    /\ o_run = NoRun
    /\ \E type \in OptimizationTypes, n_trials \in 0..(MaxTrials - StoredTrials) :
         IF ~optuna_available
         THEN /\ tuning_status' = [tuning_status EXCEPT !.active = FALSE]
              /\ UNCHANGED o_run
         ELSE /\ tuning_status' = [tuning_status EXCEPT !.active = TRUE,
                                                        !.current_trial = 0,
                                                        !.total_trials = n_trials]
              /\ o_run' = [type |-> type, left |-> n_trials]
    /\ o_last' = EndedCall("start", 0 - 1, None, None, o_last.max_score)
    /\ UNCHANGED <<progVars, dataVars, deployVars, optuna_available, study>>

\* objective_function for the next trial of the study: the evaluator's score
\* is logged, current_trial is set, and max(score, best_value) raises
\* TypeError while best_value is None; the except clause then returns 0.0,
\* which Optuna stores as the value of the trial
ObjectiveFunction ==
    /\ o_run.left > 0
    /\ \E score \in Scores :
         LET number == Len(study[o_run.type])
             params == ParamsOf(o_run.type, number)
             counted == [tuning_status EXCEPT !.current_trial = number + 1]
             raises == tuning_status.best_value = None
             best == PyMax(score, tuning_status.best_value)
             returned == IF raises THEN Num(0) ELSE score
             seen == IF o_last.max_score = None THEN score
                     ELSE PyMax(score, o_last.max_score)
         IN  /\ tuning_status' =
                    IF raises THEN counted
                    ELSE [counted EXCEPT !.best_value = best,
                                         !.best_params = IF score = best THEN params ELSE @]
             /\ study' = [study EXCEPT ![o_run.type] =
                              Append(@, [value |-> returned, params |-> params])]
             /\ o_last' = EndedCall("objective", number, score, returned, seen)
    /\ o_run' = [o_run EXCEPT !.left = @ - 1]
    /\ UNCHANGED <<progVars, dataVars, deployVars, optuna_available>>

\* start_optimization after study.optimize: study.best_value raises
\* ValueError when the study has no trial, else the status takes the
\* study's best value, the parameters of a best trial and the trial count
FinishOptimization ==
    /\ o_run # NoRun
    /\ o_run.left = 0
    /\ LET trials == study[o_run.type]
       IN  IF trials = <<>>
           THEN tuning_status' = [tuning_status EXCEPT !.active = FALSE]
           ELSE \E i \in BestTrials(trials) :
                    tuning_status' = [tuning_status EXCEPT !.active = FALSE,
                                                           !.best_value = trials[i].value,
                                                           !.best_params = trials[i].params,
                                                           !.current_trial = Len(trials)]
    /\ o_run' = NoRun
    /\ o_last' = EndedCall("finish", 0 - 1, None, None, o_last.max_score)
    /\ UNCHANGED <<progVars, dataVars, deployVars, optuna_available, study>>

NextTune == NewTuner \/ StartOptimization \/ ObjectiveFunction \/ FinishOptimization

SpecTune == InitTune /\ [][NextTune]_vars

\* C30: when objective_function has ended for a trial, the first trial of a
\* new tuner included, it has returned the score the evaluator computed,
\* tuning_status.best_value is the largest score of the trials this tuner
\* has evaluated so far, and current_trial is the trial number plus one
C30_ObjectiveUpdatesStatus ==
    o_last.call = "objective" =>
        /\ o_last.returned = o_last.score
        /\ tuning_status.best_value = o_last.max_score
        /\ tuning_status.current_trial = o_last.number + 1

====
